---------------------------- MODULE Spec2Model ----------------------------
(***************************************************************************)
(* A model of msp-tool: the MSP frame codec (src/msp.go), the session that *)
(* owns the serial handle (src/fc/fc.go) and the simulated sticks of       *)
(* package rx (src/unnamed/part_004).                                      *)
(*                                                                         *)
(* Specifications of the module:                                           *)
(*   SpecCodec   - one call of MSP.ReadFrame on a byte stream, read step   *)
(*                 by step through the transport's Read;                   *)
(*   SpecSession - the read loop FC.StartUpdating, FC.reconnect and the    *)
(*                 caller's FC.prepareToReboot running concurrently;       *)
(*   SpecSessionFair - SpecSession with the read loop scheduled fairly;    *)
(*   SpecIdent   - the read loop alone, the board sending every frame;     *)
(*   SpecTicker  - FC.ToggleRXSimulation, its tickers and goroutines on a  *)
(*                 connected session;                                      *)
(*   SpecSimulation - SpecTicker together with the read loop's dispatch    *)
(*                 and the caller's prepareToReboot;                       *)
(*   SpecEncode  - MSP.WriteCmd encoding commands with mspV1Encode;         *)
(*   SpecCrc     - the checksum loop over crc8DvbS2;                         *)
(*   SpecResim   - the goroutine of a running RX simulation while the    *)
(*                 read loop dispatches frames and reconnects;             *)
(*   SpecSticks  - RxSticks.Keypress, Update and Reset as time passes;     *)
(*   SpecSnapshot - RxSticks.Keypress and ToMSP;                           *)
(*   SpecCoder   - MSPFrame.Read on payloads made by MSP.encodeArgs;       *)
(*   SpecBoardInfo - the board-info case of FC.handleFrame;                *)
(*   SpecHandler - FC.handleFrame on the payloads of frames of every code; *)
(*   SpecPid     - the PID case of FC.handleFrame;                         *)
(*   SpecLock    - Keypress, Update and ToMSP called by two tasks under    *)
(*                 RxSticks.mu while the read loop reconnects.             *)
(***************************************************************************)
EXTENDS Integers, Sequences, FiniteSets, TLC

VARIABLES
    \* ---- codec: the transport's byte stream and one ReadFrame call ----
    input,      \* what was put on the wire: [kind, cmd, data, bytes]
    wire,       \* bytes sent by the peer that have not arrived yet
    rxbuf,      \* bytes that arrived and were not read yet
    whole,      \* TRUE iff every byte was available before the first Read
    rpc,        \* position inside ReadFrame
    hdr,        \* the header buffer buf[] of readMSPV1Frame / readMSPV2Frame
    payload,    \* the payload slice of the frame being read
    ccrc,       \* the checksum recomputed while reading
    res,        \* what ReadFrame returned
    \* ---- session: FC, its handles and its tasks ----
    fmsp,       \* FC.msp: 0 is nil, otherwise a handle
    hstate,     \* per handle: "none", "open", "closed" (MSP.port is nil)
    hrole,      \* per handle: "none", "primary" (NewFC/reconnect), "temp"
    hwrites,    \* per handle: what was written to it, in order
    dispatched, \* per handle: a frame read from it was given to handleFrame
    nextH,      \* number of handles opened so far
    conn,       \* the handle last stored into FC.msp by NewFC or reconnect
    ident,      \* BoardIdentity: per field 0 (empty) or the handle it came from
    port,       \* the device: "absent", "busy" (present, open fails), "ok"
    sends,      \* the frame codes the board sends
    lpc,        \* read loop: position in StartUpdating / reconnect
    lm,         \* read loop: StartUpdating's m (0 is nil)
    lerr,       \* read loop: the err of this iteration
    lframe,     \* read loop: the frame of this iteration
    rm,         \* read loop: reconnect's m (0 before the open succeeded)
    rret,       \* read loop: what reconnect returned
    linfo,      \* read loop: number of updateInfo commands written
    ppc,        \* caller task: position in prepareToReboot
    pm,         \* caller task: prepareToReboot's m
    pmm,        \* caller task: prepareToReboot's mm
    pact,       \* caller task: the action fn of this call
    plog,       \* caller task: the steps this call performed, in order
    pret,       \* caller task: what the last call returned
    callsLeft,  \* calls of Reboot / dfuReboot the caller task may still make
    \* ---- RX simulation: the ticker of ToggleRXSimulation and its goroutine ----
    rxTicker,   \* FC.rxTicker: 0 is nil, otherwise a ticker
    tstate,     \* per ticker: "none", "running", "stopped"
    tchan,      \* per ticker: ticks buffered in its channel C (capacity 1)
    gpc,        \* per ticker: position of the goroutine that ranges over C
    gm,         \* per ticker: the goroutine's m (0 is nil)
    nextT,      \* number of tickers created so far
    ticks,      \* number of ticks the tickers have sent so far
    rcLate,     \* MspSetRawRC was written while simulation was switched off
    \* ---- RX simulation: the sticks (package rx) and the channel map ----
    sticks,     \* FC.sticks: Roll, Pitch, Yaw, Throttle, Channels, lastPress
    channelMap, \* FC.channelMap: <<>> is nil, otherwise its 8 bytes
    boardMap,   \* the payload of the RX map frame the board sends
    now,        \* the clock time.Now() reads, in milliseconds
    presses,    \* number of Keypress calls so far
    kop,        \* the last call on the sticks: [op, key, at, was, map, out]
    held,       \* per axis: <<>>, or the time of its last direction key press
    \* ---- payloads: MSPFrame.Read, encodeArgs and the board-info handler ----
    frame,      \* an MSPFrame: its Payload and its payloadPos
    enc,        \* the value encodeArgs encoded into the payload
    dec,        \* the last MSPFrame.Read: [from, tgt, out, err]
    binfo,      \* FC after a board-info frame: [boardID, targetName, err]
    \* ---- handleFrame on payloads, and the tasks that lock the sticks ----
    fc,         \* FC: EnableDebugTrace, variant, version, ids, Features
    hcall,      \* the last handleFrame call: its frame, f before it, its outcome
    crit,       \* per task: where it is in a call that locks RxSticks.mu
    pid         \* FC.PidMap and the last PID frame handled

cvars == <<input, wire, rxbuf, whole, rpc, hdr, payload, ccrc, res>>
svars == <<fmsp, hstate, hrole, hwrites, dispatched, nextH, conn, ident, port,
           sends,
           lpc, lm, lerr, lframe, rm, rret, linfo,
           ppc, pm, pmm, pact, plog, pret, callsLeft>>
tvars == <<rxTicker, tstate, tchan, gpc, gm, nextT, ticks, rcLate>>
kvars == <<sticks, channelMap, boardMap, now, presses, kop, held>>
vvars == <<frame, enc, dec, binfo>>
fvars == <<fc, hcall, crit, pid>>
\* the variables of the parts added to codec and session
xvars == <<tvars, kvars, vvars, fvars>>
vars == <<cvars, svars, xvars>>

---------------------------------------------------------------------------
(* Bounds of the model *)

\* longest v1 payload put on the wire
MaxLen == 2
\* longest zero payload of a v2 frame put on the wire
MaxV2Len == 2
\* longest byte sequence the checksum loop is run over
MaxCrcLen == 3
\* tickers ToggleRXSimulation may create
MaxTickers == 2
\* ticks sent by the tickers
MaxTicks == 2
\* times the device lets itself be opened, NewFC's open included
MaxHandles == 3
\* calls of Reboot / dfuReboot by the caller task
MaxCalls == 1
\* Keypress calls of the input task
MaxPress == 2
\* steps of the clock
MaxClock == 2
\* bytes missing at the end of an encoded value
MaxCut == 2
\* longest board-info payload
MaxInfoLen == 11
\* longest target name a board-info payload declares
MaxNameLen == 2
\* serial configurations in the payload of a serial-config frame
MaxRecords == 2

---------------------------------------------------------------------------
(* Bytes *)

Byte == 0..255
\* '$', 'M', 'X', '<', '>'
ChDollar == 36
ChM == 77
ChX == 88
ChLt == 60
ChGt == 62

\* bit i of the exclusive or of a and b
XorBit(a, b, i) == (((a \div (2^i)) % 2) + ((b \div (2^i)) % 2)) % 2

Nibble == 0..15
\* the exclusive or of two half bytes
XorNibble ==
    [a \in Nibble, b \in Nibble |->
        XorBit(a, b, 0) + 2 * XorBit(a, b, 1) + 4 * XorBit(a, b, 2)
        + 8 * XorBit(a, b, 3)]

\* Go's ^ on two bytes
Xor(a, b) ==
    XorNibble[a % 16, b % 16] + 16 * XorNibble[a \div 16, b \div 16]

\* crc := acc; for _, v := range s { crc ^= v }
\* bit k of the result of the loop is bit k of acc, inverted once for every
\* byte of s that has bit k set
XorAll(acc, s) ==
    LET flips(k) ==
            Cardinality({i \in 1..Len(s) : (s[i] \div (2 ^ k)) % 2 = 1})
        bit(k) == ((acc \div (2 ^ k)) + flips(k)) % 2
    IN  bit(0) + 2 * bit(1) + 4 * bit(2) + 8 * bit(3)
          + 16 * bit(4) + 32 * bit(5) + 64 * bit(6) + 128 * bit(7)

Min(a, b) == IF a < b THEN a ELSE b

Take(s, n) == SubSeq(s, 1, Min(n, Len(s)))
Drop(s, n) == SubSeq(s, Min(n, Len(s)) + 1, Len(s))

RECURSIVE Zeros(_)
Zeros(n) == IF n <= 0 THEN <<>> ELSE <<0>> \o Zeros(n - 1)

\* a buffer of n zero bytes whose first Len(got) bytes were filled by a Read
Filled(n, got) == got \o Zeros(n - Len(got))

---------------------------------------------------------------------------
(* src/msp.go: the encoders and the CRC *)

mspV1Encode(cmd, data) ==
    LET payloadLength == IF Len(data) > 0 THEN Len(data) % 256 ELSE 0
        body == <<payloadLength, cmd>> \o (IF payloadLength > 0 THEN data ELSE <<>>)
    IN  <<ChDollar, ChM, ChLt>> \o body \o <<XorAll(0, body)>>

\* one round with the polynomial 0x1D in the place of 0xD5
crcStepOtherPoly ==
    [c \in Byte |-> IF c >= 128 THEN Xor((c * 2) % 256, 29) ELSE (c * 2) % 256]

\* one round of the inner loop of crc8DvbS2 on the byte c
crcStep ==
    [c \in Byte |-> IF c >= 128 THEN Xor((c * 2) % 256, 213) ELSE (c * 2) % 256]

RECURSIVE crcShift(_, _)
\* the inner loop of crc8DvbS2: ii rounds
crcShift(crc, ii) == IF ii = 0 THEN crc ELSE crcShift(crcStep[crc], ii - 1)

\* the eight rounds of the inner loop, for every byte they can start from
crcRounds == [c \in Byte |-> crcShift(c, 8)]

\* crc ^= a, then the inner loop
crc8DvbS2(crc, a) == crcRounds[Xor(crc, a)]

RECURSIVE crcAll(_, _)
\* crc := acc; for _, v := range s { crc = crc8DvbS2(crc, v) }
crcAll(acc, s) ==
    IF s = <<>> THEN acc ELSE crcAll(crc8DvbS2(acc, Head(s)), Tail(s))

mspV2Encode(cmd, totalLength) ==
    LET payloadLength == IF totalLength > 6
                         THEN ((totalLength % 256) - 9) % 256 ELSE 0
        body == <<0, cmd, 0, payloadLength, 0>> \o Zeros(payloadLength)
    IN  <<ChDollar, ChX, ChLt>> \o body \o <<crcAll(0, body)>>


---------------------------------------------------------------------------
(* src/msp.go: the results of ReadFrame *)

NoRes == [kind |-> "none", code |-> 0, payload |-> <<>>, checksum |-> 0,
          expected |-> 0]
\* &MSPFrame{Code: code, Payload: payload, payloadPos: 0}
FrameRes(code, pl) == [NoRes EXCEPT !.kind = "frame", !.code = code,
                                    !.payload = pl]
\* &mspChecksumErr{code, payload, checksum, expectedChecksum}
ChecksumErr(code, pl, crc, exp) ==
    [kind |-> "checksum", code |-> code, payload |-> pl, checksum |-> crc,
     expected |-> exp]
\* &mspOOBErr{b: b}
OOBErr(b) == [NoRes EXCEPT !.kind = "oob", !.code = b]
\* fmt.Errorf("unknown MSP char %c", b)
UnknownCharErr(b) == [NoRes EXCEPT !.kind = "unknown", !.code = b]
\* fmt.Errorf("invalid MSP direction char 0x%02x", b)
DirectionErr(b) == [NoRes EXCEPT !.kind = "direction", !.code = b]
\* the error of port.Read or io.ReadFull, passed on
IOErr == [NoRes EXCEPT !.kind = "io"]

\* err.(msp.MSPError) succeeds and IsMSPError() is true: only the two error
\* types that declare the method
IsMSPError(kind) == kind \in {"checksum", "oob"}

\* readMSPV1Frame after the checksum byte crc was read
v1Result(cmd, pl, crc, cc) ==
    IF crc # cc THEN ChecksumErr(cmd, pl, crc, cc) ELSE FrameRes(cmd, pl)

\* readMSPV2Frame after the checksum byte was read: the byte is not looked at
v2Result(code, pl, crc) == FrameRes(code, pl)

---------------------------------------------------------------------------
(* The byte streams put on the wire *)

CmdVals == {0, 4, 36, 255}
PayVals == {0, 36, 77, 255}
Payloads == UNION {[1..n -> PayVals] : n \in 0..MaxLen}
FlipBits == 0..7

\* s with bit b of its i-th byte inverted
FlipAt(s, i, b) == [s EXCEPT ![i] = Xor(s[i], 2^b)]

In(kind, cmd, data, bytes) ==
    [kind |-> kind, cmd |-> cmd, data |-> data, bytes |-> bytes]

\* an encoded v1 frame
V1Inputs == {In("v1", c, p, mspV1Encode(c, p)) : c \in CmdVals, p \in Payloads}

\* an encoded v1 frame with one payload bit inverted, checksum untouched
V1FlipInputs ==
    UNION {{In("v1flip", c, p, FlipAt(mspV1Encode(c, p), 5 + i, b)) :
              i \in 1..Len(p), b \in FlipBits} : c \in CmdVals, p \in Payloads}

V2Totals == {0} \cup {9 + n : n \in 0..MaxV2Len}
V2Data(t) == Zeros(IF t > 6 THEN t - 9 ELSE 0)

\* an encoded v2 frame
V2Inputs == {In("v2", c, V2Data(t), mspV2Encode(c, t)) :
               c \in CmdVals, t \in V2Totals}

\* an encoded v2 frame with one bit of its checksum byte or of a payload byte
\* inverted
V2BadInputs ==
    UNION {{In("v2bad", c, V2Data(t), FlipAt(mspV2Encode(c, t), i, b)) :
              i \in 9..Len(mspV2Encode(c, t)), b \in FlipBits} :
           c \in CmdVals, t \in V2Totals}

\* a byte that is not '$' in front of a frame
OOBInputs == {In("oob", b, <<>>, <<b>> \o mspV1Encode(4, <<>>)) : b \in {0, ChM}}

\* '$' followed by a byte that is neither 'M' nor 'X'
UnknownInputs ==
    {In("unknown", b, <<>>, <<ChDollar, b, ChLt, 0, 4, 4>>) : b \in {0, ChDollar, ChLt}}

\* a frame whose direction byte is neither '<' nor '>'
DirInputs ==
    {In("direction", b, <<>>, <<ChDollar, t, b, 0, 4, 4, 0, 0, 0>>) :
       b \in {0, ChX}, t \in {ChM, ChX}}

\* a frame from the board ('>'), as sent in reply to a request
ReplyInputs ==
    {In("reply", c, p, [mspV1Encode(c, p) EXCEPT ![3] = ChGt]) :
       c \in {4}, p \in Payloads}

\* a frame cut short by the transport closing
TruncInputs ==
    UNION {{In("trunc", 0, <<>>, Take(f, n)) : n \in 0..(Len(f) - 1)} :
           f \in {mspV1Encode(4, <<36, 255>>), mspV2Encode(4, 10)}}

Inputs == V1Inputs \cup V1FlipInputs \cup V2Inputs \cup V2BadInputs
          \cup OOBInputs \cup UnknownInputs \cup DirInputs \cup ReplyInputs
          \cup TruncInputs

---------------------------------------------------------------------------
(* The transport: serial.Port.Read on the arrived bytes.  A Read of n bytes  *)
(* returns the bytes that have arrived, at most n and at least one; it      *)
(* fails once the peer is gone and nothing is left.                          *)

\* the peer's next byte arrives
Arrive ==
    /\ wire # <<>>
    /\ rpc # "done"
    /\ rxbuf' = Append(rxbuf, Head(wire))
    /\ wire' = Tail(wire)
    /\ UNCHANGED <<input, whole, rpc, hdr, payload, ccrc, res, svars, xvars>>

\* port.Read can return: something has arrived
CanRead == rxbuf # <<>>
\* port.Read fails: nothing is left and nothing will come
AtEOF == rxbuf = <<>> /\ wire = <<>>
\* io.ReadFull(port, buf) of n bytes fails: fewer than n bytes will ever come
ShortEOF(n) == Len(rxbuf) < n /\ wire = <<>>

\* return nil, err
ReturnIOErr ==
    /\ rpc' = "done"
    /\ res' = IOErr
    /\ UNCHANGED <<input, wire, rxbuf, whole, hdr, payload, ccrc, svars, xvars>>

---------------------------------------------------------------------------
(* src/msp.go: MSP.ReadFrame, readMSPV1Frame, readMSPV2Frame *)

\* ReadFrame: the loop that reads one byte and wants '$'
RF_Marker ==
    /\ rpc = "marker"
    /\ \/ /\ CanRead
          /\ rxbuf' = Tail(rxbuf)
          /\ IF Head(rxbuf) = ChDollar
             THEN rpc' = "type" /\ res' = res
             ELSE rpc' = "done" /\ res' = OOBErr(Head(rxbuf))
          /\ UNCHANGED <<input, wire, whole, hdr, payload, ccrc, svars, xvars>>
       \/ AtEOF /\ ReturnIOErr

\* ReadFrame: the byte after '$' selects the protocol version
RF_Type ==
    /\ rpc = "type"
    /\ \/ /\ CanRead
          /\ rxbuf' = Tail(rxbuf)
          /\ IF Head(rxbuf) = ChM THEN rpc' = "v1hdr" /\ res' = res
             ELSE IF Head(rxbuf) = ChX THEN rpc' = "v2hdr" /\ res' = res
             ELSE rpc' = "done" /\ res' = UnknownCharErr(Head(rxbuf))
          /\ UNCHANGED <<input, wire, whole, hdr, payload, ccrc, svars, xvars>>
       \/ AtEOF /\ ReturnIOErr

\* the direction check of both frame readers
BadDirection(buf) == buf[1] # ChLt /\ buf[1] # ChGt

\* readMSPV1Frame: buf := make([]byte, 3); m.port.Read(buf); direction
\* check; ccrc over length and command
V1_Header ==
    /\ rpc = "v1hdr"
    /\ \/ /\ CanRead
          /\ LET buf == Filled(3, Take(rxbuf, 3)) IN
             /\ rxbuf' = Drop(rxbuf, 3)
             /\ hdr' = buf
             /\ IF BadDirection(buf)
                THEN /\ rpc' = "done"
                     /\ res' = DirectionErr(buf[1])
                     /\ ccrc' = ccrc
                ELSE /\ ccrc' = Xor(Xor(0, buf[2]), buf[3])
                     /\ rpc' = IF buf[2] > 0 THEN "v1pay" ELSE "v1crc"
                     /\ res' = res
          /\ UNCHANGED <<input, wire, whole, payload, svars, xvars>>
       \/ AtEOF /\ ReturnIOErr

\* readMSPV1Frame: io.ReadFull(m.port, payload), then ccrc over the payload
V1_Payload ==
    /\ rpc = "v1pay"
    /\ LET payloadLength == hdr[2] IN
       \/ /\ Len(rxbuf) >= payloadLength
          /\ payload' = Take(rxbuf, payloadLength)
          /\ rxbuf' = Drop(rxbuf, payloadLength)
          /\ ccrc' = XorAll(ccrc, Take(rxbuf, payloadLength))
          /\ rpc' = "v1crc"
          /\ UNCHANGED <<input, wire, whole, hdr, res, svars, xvars>>
       \/ /\ ShortEOF(payloadLength)
          /\ rpc' = "done"
          /\ res' = IOErr
          /\ rxbuf' = <<>>
          /\ UNCHANGED <<input, wire, whole, hdr, payload, ccrc, svars, xvars>>

\* readMSPV1Frame: buf = buf[:1]; m.port.Read(buf); compare the checksums
V1_Checksum ==
    /\ rpc = "v1crc"
    /\ \/ /\ CanRead
          /\ rxbuf' = Tail(rxbuf)
          /\ rpc' = "done"
          /\ res' = v1Result(hdr[3], payload, Head(rxbuf), ccrc)
          /\ UNCHANGED <<input, wire, whole, hdr, payload, ccrc, svars, xvars>>
       \/ AtEOF /\ ReturnIOErr

\* readMSPV2Frame: buf := make([]byte, 6); m.port.Read(buf); direction check
V2_Header ==
    /\ rpc = "v2hdr"
    /\ \/ /\ CanRead
          /\ LET buf == Filled(6, Take(rxbuf, 6)) IN
             /\ rxbuf' = Drop(rxbuf, 6)
             /\ hdr' = buf
             /\ IF BadDirection(buf)
                THEN rpc' = "done" /\ res' = DirectionErr(buf[1])
                ELSE /\ rpc' = IF buf[5] + 256 * buf[6] > 0 THEN "v2pay" ELSE "v2crc"
                     /\ res' = res
          /\ UNCHANGED <<input, wire, whole, payload, ccrc, svars, xvars>>
       \/ AtEOF /\ ReturnIOErr

\* readMSPV2Frame: io.ReadFull(m.port, payload)
V2_Payload ==
    /\ rpc = "v2pay"
    /\ LET payloadLength == hdr[5] + 256 * hdr[6] IN
       \/ /\ Len(rxbuf) >= payloadLength
          /\ payload' = Take(rxbuf, payloadLength)
          /\ rxbuf' = Drop(rxbuf, payloadLength)
          /\ rpc' = "v2crc"
          /\ UNCHANGED <<input, wire, whole, hdr, ccrc, res, svars, xvars>>
       \/ /\ ShortEOF(payloadLength)
          /\ rpc' = "done"
          /\ res' = IOErr
          /\ rxbuf' = <<>>
          /\ UNCHANGED <<input, wire, whole, hdr, payload, ccrc, svars, xvars>>

\* readMSPV2Frame: buf = make([]byte, 1); m.port.Read(buf); return the frame
V2_Checksum ==
    /\ rpc = "v2crc"
    /\ \/ /\ CanRead
          /\ rxbuf' = Tail(rxbuf)
          /\ rpc' = "done"
          /\ res' = v2Result(hdr[3] + 256 * hdr[4], payload, Head(rxbuf))
          /\ UNCHANGED <<input, wire, whole, hdr, payload, ccrc, svars, xvars>>
       \/ AtEOF /\ ReturnIOErr

---------------------------------------------------------------------------
(* Go values *)

\* a Go value of the kinds the coder knows: an unsigned integer with its
\* value v (a uint32 as v + 65536 * h, each half below 65536), or a struct /
\* slice with its fields / elements sub
Val(k, h, v, sub) == [k |-> k, h |-> h, v |-> v, sub |-> sub]
U8(v) == Val("uint8", 0, v, <<>>)
U16(v) == Val("uint16", 0, v, <<>>)
U32(h, v) == Val("uint32", h, v, <<>>)
Struct(fields) == Val("struct", 0, 0, fields)
Slice(elems) == Val("slice", 0, 0, elems)

---------------------------------------------------------------------------
(* src/msp.go: command codes; src/fc/fc.go: the session's data *)

mspAPIVersion == 1
mspFCVariant == 2
mspFCVersion == 3
mspBoardInfo == 4
mspBuildInfo == 5
mspFeature == 36
mspCFSerialConfig == 54
mspRXMap == 64
mspReboot == 68
mspDebugMsg == 253
\* the reboot character written by RebootIntoBootloader
RebootChar == 82

\* a write of MSP.WriteCmd(cmd) and a write of raw bytes
Cmd(c) == <<"cmd", c>>
Raw(b) == <<"raw", b>>

\* FC.updateInfo asking for the board info before the firmware version
updateInfoSwapped ==
    <<mspAPIVersion, mspFCVariant, mspBoardInfo, mspFCVersion, mspBuildInfo,
      mspFeature, mspCFSerialConfig, mspRXMap>>

\* FC.updateInfo: the commands it writes, in its order
updateInfoCmds ==
    <<mspAPIVersion, mspFCVariant, mspFCVersion, mspBoardInfo, mspBuildInfo,
      mspFeature, mspCFSerialConfig, mspRXMap>>

Handles == 1..MaxHandles
Tickers == 1..MaxTickers

\* the fields of FC that hold what the board reported about itself
Fields == {"variant", "version", "boardID", "targetName", "features",
           "channelMap"}

\* FC.reset that leaves the target name alone
resetKeepsTargetName(id) ==
    [f \in Fields |-> IF f = "targetName" THEN id[f] ELSE 0]

\* FC.reset: every identity field of id back to its zero value
reset(id) == [f \in Fields |-> 0]

\* the fields of a new FC value
NoIdentity == [f \in Fields |-> 0]

\* the fields of an FC that handleFrame reads and writes, as they are after
\* NewFC's reset(); trace is opts.EnableDebugTrace
NewFields(trace) ==
    [EnableDebugTrace |-> trace, variant |-> <<>>,
     versionMajor |-> 0, versionMinor |-> 0, versionPatch |-> 0,
     boardID |-> <<>>, targetName |-> <<>>, Features |-> U32(0, 0)]

\* FC.reset on these fields: the options stay
resetFC(f) == NewFields(f.EnableDebugTrace)

\* no frame handled yet
NoHandled ==
    [code |-> 0, payload |-> <<>>, was |-> NewFields(TRUE), wasMap |-> <<>>,
     err |-> "none", wrote |-> <<>>, printed |-> FALSE]

\* the tasks that call Keypress, Update and ToMSP: the keyboard input and
\* the goroutine of the RX simulation
Tasks == {"input", "timer"}

\* a task that is in no call on the sticks
NoCrit == [pc |-> "out", op |-> "none", key |-> ""]

\* the frames the board sends, as far as the session tells them apart:
\* named says whether a board-info payload carries a target name
FrameCodes == {mspAPIVersion, mspFCVariant, mspFCVersion, mspBoardInfo,
               mspFeature, mspRXMap, mspDebugMsg}
NoFrame == [h |-> 0, code |-> 0, named |-> FALSE]

\* FC.handleFrame: the identity fields after a frame read from handle fr.h
handleFrame(id, fr) ==
    IF fr.code = mspFCVariant THEN [id EXCEPT !["variant"] = fr.h]
    ELSE IF fr.code = mspFCVersion THEN [id EXCEPT !["version"] = fr.h]
    ELSE IF fr.code = mspBoardInfo
         THEN [id EXCEPT !["boardID"] = fr.h,
                         !["targetName"] = IF fr.named THEN fr.h ELSE @]
    ELSE IF fr.code = mspFeature THEN [id EXCEPT !["features"] = fr.h]
    ELSE IF fr.code = mspRXMap THEN [id EXCEPT !["channelMap"] = fr.h]
    ELSE id

\* the errors ReadFrame hands to the read loop ("closed" is os.ErrClosed,
\* bare or inside a *os.PathError)
ReadErrKinds == {"checksum", "oob", "unknown", "direction", "io", "closed"}

\* FC.unwrapError(err) == os.ErrClosed
IsErrClosed(kind) == kind = "closed"

\* FC.portIsPresent: os.Stat(PortName) succeeds
portIsPresent == port # "absent"

\* msp.New / serial.OpenPort succeeds
OpenSucceeds == port = "ok" /\ nextH < MaxHandles

\* the handle the next successful open returns
NewHandle == nextH + 1

\* msp.New succeeded: a fresh MSP with an open port
Opened(hs, h) == [hs EXCEPT ![h] = "open"]

\* MSP.Close: closes the port and sets it to nil, unless it is nil already
Close(hs, h) == IF hs[h] = "open" THEN [hs EXCEPT ![h] = "closed"] ELSE hs

\* a panic or a fatal error in any goroutine ends the process
Running ==
    /\ lpc \notin {"crashed", "fatal"} /\ ppc # "crashed"
    /\ \A t \in DOMAIN gpc : gpc[t] # "crashed"
    /\ \A t \in Tasks : crit[t].pc # "fatal"

lvars == <<lpc, lm, lerr, lframe, rm, rret, linfo>>
pvars == <<ppc, pm, pmm, pact, plog, pret, callsLeft>>
hvars == <<hstate, hrole, hwrites, dispatched, nextH>>
evars == <<port, sends>>

---------------------------------------------------------------------------
(* src/unnamed/part_004: package rx, the simulated sticks *)

RxLow == 1000
RxMid == 1500
RxHigh == 2000
\* keyTimeout, in milliseconds
keyTimeout == 100
\* len(RxSticks.Channels): channels 5-18
AuxCount == 14
AuxIdx == 0..(AuxCount - 1)

\* the RXKey values, in the order of their iota
RXKeys == <<"W", "A", "S", "D", "Up", "Left", "Down", "Right",
            "1", "2", "3", "4", "5", "6", "7", "8", "9", "0">>
KeySet == {RXKeys[i] : i \in 1..Len(RXKeys)}
Axes == {"Roll", "Pitch", "Yaw", "Throttle"}

\* time.Time{} and a time.Time read from the clock
NoTime == <<>>
At(t) == <<t>>

\* the zero value of RxSticks
ZeroSticks ==
    [Roll |-> 0, Pitch |-> 0, Yaw |-> 0, Throttle |-> 0,
     Channels |-> [i \in AuxIdx |-> 0],
     lastPress |-> [k \in KeySet |-> NoTime],
     mu |-> "unlocked"]

\* FC.reset: f.sticks = rx.RxSticks{Roll: RxMid, Pitch: RxMid, Yaw: RxMid,
\* Throttle: RxMid}; the fields it does not name keep their zero value
resetSticks ==
    [ZeroSticks EXCEPT !.Roll = RxMid, !.Pitch = RxMid, !.Yaw = RxMid,
                       !.Throttle = RxMid]

\* a Reset that takes the throttle to 0 in the place of RxLow
ResetThrottleOff(r) ==
    [r EXCEPT !.Roll = RxMid, !.Pitch = RxMid, !.Yaw = RxMid,
              !.Throttle = 0,
              !.Channels = [i \in AuxIdx |-> RxLow]]

\* RxSticks.Reset
Reset(r) ==
    [r EXCEPT !.Roll = RxMid, !.Pitch = RxMid, !.Yaw = RxMid,
              !.Throttle = RxLow,
              !.Channels = [i \in AuxIdx |-> RxLow]]

\* RxSticks.switchChannel(ch) with channels counted from 4
switchChannelFromFour(r, ch) ==
    LET idx == ch - 4
    IN  IF idx >= 0 /\ idx < AuxCount
        THEN [r EXCEPT !.Channels[idx] = IF @ = RxLow THEN RxHigh ELSE RxLow]
        ELSE r

\* RxSticks.switchChannel(ch)
switchChannel(r, ch) ==
    LET idx == ch - 5
    IN  IF idx >= 0 /\ idx < AuxCount
        THEN [r EXCEPT !.Channels[idx] = IF @ = RxLow THEN RxHigh ELSE RxLow]
        ELSE r

\* one case of Keypress's switch for a direction key: the axis gets v and
\* lastPress[clr] is emptied
Press(r, axis, v, clr) == [r EXCEPT ![axis] = v, !.lastPress[clr] = NoTime]

\* the switch of RxSticks.Keypress(key)
KeypressSwitch(r, key) ==
           CASE key = "W" -> Press(r, "Throttle", RxHigh, "S")
               [] key = "A" -> Press(r, "Yaw", RxLow, "D")
               [] key = "S" -> Press(r, "Throttle", RxLow, "W")
               [] key = "D" -> Press(r, "Yaw", RxHigh, "A")
               [] key = "Up" -> Press(r, "Pitch", RxHigh, "Down")
               [] key = "Left" -> Press(r, "Roll", RxLow, "Right")
               [] key = "Down" -> Press(r, "Pitch", RxLow, "Up")
               [] key = "Right" -> Press(r, "Roll", RxHigh, "Right")
               [] key = "1" -> switchChannel(r, 5)
               [] key = "2" -> switchChannel(r, 6)
               [] key = "3" -> switchChannel(r, 7)
               [] key = "4" -> switchChannel(r, 8)
               [] key = "5" -> switchChannel(r, 9)
               [] key = "6" -> switchChannel(r, 10)
               [] key = "7" -> switchChannel(r, 11)
               [] key = "8" -> switchChannel(r, 12)
               [] key = "9" -> switchChannel(r, 13)
               [] key = "0" -> switchChannel(r, 14)
               [] OTHER -> r

\* RxSticks.Keypress(key) at time t: the switch, then
\* r.lastPress[key] = time.Now()
Keypress(r, key, t) ==
    [KeypressSwitch(r, key) EXCEPT !.lastPress[key] = At(t)]

\* ts.Add(keyTimeout).Before(now) for a ts that is not the zero time
Expired(ts, t) == ts # NoTime /\ ts[1] + keyTimeout < t

\* one round of Update's loop, for key
UpdateKey(r, key, t) ==
    IF Expired(r.lastPress[key], t)
    THEN LET c == [r EXCEPT !.lastPress[key] = NoTime]
         IN  CASE key \in {"W", "S"} -> [c EXCEPT !.Throttle = RxMid]
               [] key \in {"A", "D"} -> [c EXCEPT !.Yaw = RxMid]
               [] key \in {"Up", "Down"} -> [c EXCEPT !.Pitch = RxMid]
               [] key \in {"Left", "Right"} -> [c EXCEPT !.Roll = RxMid]
               [] OTHER -> c
    ELSE r

RECURSIVE UpdateFrom(_, _, _)
UpdateFrom(r, i, t) ==
    IF i > Len(RXKeys) THEN r
    ELSE UpdateFrom(UpdateKey(r, RXKeys[i], t), i + 1, t)

\* RxSticks.Update() at time t
Update(r, t) == UpdateFrom(r, 1, t)

\* channels[pos] = v on a Go slice kept as a sequence
Put(ch, pos, v) == [ch EXCEPT ![pos + 1] = v]

\* ToMSP indexes channelMap[0..3] and channels[channelMap[i]], a slice of
\* four: either index out of range is a panic
ToMSPPanics(cm) == Len(cm) < 4 \/ \E i \in 1..4 : cm[i] >= 4

\* RxSticks.ToMSP with pitch and roll taken for each other
ToMSPSwapped(r, cm) ==
    Put(Put(Put(Put(<<0, 0, 0, 0>>, cm[1], r.Pitch), cm[2], r.Roll),
            cm[3], r.Yaw), cm[4], r.Throttle)
      \o [i \in 1..AuxCount |-> r.Channels[i - 1]]

\* RxSticks.ToMSP(channelMap): rxPayload.Channels, for a call that returns
ToMSP(r, cm) ==
    Put(Put(Put(Put(<<0, 0, 0, 0>>, cm[1], r.Roll), cm[2], r.Pitch),
            cm[3], r.Yaw), cm[4], r.Throttle)
      \o [i \in 1..AuxCount |-> r.Channels[i - 1]]

\* the axis Update re-centres for a direction key
AxisOf(key) ==
    CASE key \in {"W", "S"} -> "Throttle"
      [] key \in {"A", "D"} -> "Yaw"
      [] key \in {"Up", "Down"} -> "Pitch"
      [] key \in {"Left", "Right"} -> "Roll"
      [] OTHER -> "none"

DirKeys == {k \in KeySet : AxisOf(k) # "none"}
ToggleKeys == KeySet \ DirKeys

\* a call on the sticks as the model records it: the operation, its key,
\* the time it read, the value a toggle key found in its channel, the
\* channel map handed to ToMSP and what ToMSP returned
Call(op, key, at, was, map, out) ==
    [op |-> op, key |-> key, at |-> at, was |-> was, map |-> map, out |-> out]
NoCall == Call("none", "", 0, 0, <<>>, <<>>)

\* the sticks get the value s by the call c
StickStep(s, c) ==
    /\ sticks' = s
    /\ kop' = c

\* FC.reset, as far as the RX simulation goes: the ticker is stopped and
\* dropped, the channel map dropped, the sticks replaced
resetRX ==
    /\ rxTicker' = 0
    /\ tstate' = [t \in Tickers |->
                    IF t = rxTicker THEN "stopped" ELSE tstate[t]]
    /\ channelMap' = <<>>
    /\ StickStep(resetSticks, Call("literal", "", 0, 0, <<>>, <<>>))

\* the RX map an iNAV board reports by default: AETR
BoardRXMap == <<0, 1, 3, 2, 4, 5, 6, 7>>

\* the MspRXMap case of FC.handleFrame: make([]uint8, 8), then fr.Read fills
\* it byte by byte until the payload ends
rxMapOf(pl) == [i \in 1..8 |-> IF i <= Len(pl) THEN pl[i] ELSE 0]

---------------------------------------------------------------------------
(* The device *)

\* the board is unplugged, plugged in, reboots, or its port becomes busy
PortChange ==
    /\ Running
    /\ \E p \in {"absent", "busy", "ok"} \ {port} : port' = p
    /\ UNCHANGED <<cvars, xvars, fmsp, hvars, conn, ident, sends, lvars, pvars>>

---------------------------------------------------------------------------
(* src/fc/fc.go: FC.StartUpdating *)

\* m := f.msp; if m != nil { ... } else { err = os.ErrClosed }
L_Load ==
    /\ Running /\ lpc = "top"
    /\ lm' = fmsp
    /\ lframe' = NoFrame
    /\ IF fmsp # 0
       THEN lpc' = "read" /\ lerr' = "nil"
       ELSE lpc' = "errcheck" /\ lerr' = "closed"
    /\ UNCHANGED <<cvars, xvars, fmsp, hvars, conn, ident, evars, rm, rret, linfo, pvars>>

\* m.ReadFrame() starts: m.port.Read(buf) dereferences m.port, which
\* panics when Close has set it to nil
L_ReadBegin ==
    /\ Running /\ lpc = "read"
    /\ lpc' = IF hstate[lm] = "open" THEN "reading" ELSE "crashed"
    /\ UNCHANGED <<cvars, xvars, fmsp, hvars, conn, ident, evars, lm, lerr, lframe,
                   rm, rret, linfo, pvars>>

\* m.ReadFrame() returns a frame
L_ReadFrame ==
    /\ Running /\ lpc = "reading"
    /\ port # "absent"
    /\ \E c \in sends, n \in BOOLEAN :
         lframe' = [h |-> lm, code |-> c, named |-> (n /\ c = mspBoardInfo)]
    /\ lerr' = "nil"
    /\ lpc' = "errcheck"
    /\ UNCHANGED <<cvars, xvars, fmsp, hvars, conn, ident, evars, lm, rm, rret,
                   linfo, pvars>>

\* m.ReadFrame() returns an error: a decode error of the bytes read, an
\* error of the port, or the closed error when the port was closed under it
L_ReadError ==
    /\ Running /\ lpc = "reading"
    /\ \E k \in ReadErrKinds :
         /\ k \in {"checksum", "oob", "unknown", "direction"} => port # "absent"
         /\ k = "closed" => hstate[lm] = "closed"
         /\ lerr' = k
    /\ lpc' = "errcheck"
    /\ UNCHANGED <<cvars, xvars, fmsp, hvars, conn, ident, evars, lm, lframe, rm, rret,
                   linfo, pvars>>

\* ReadFrame's next m.port.Read finds the port set to nil by a Close
L_ReadNilPort ==
    /\ Running /\ lpc = "reading"
    /\ hstate[lm] = "closed"
    /\ lpc' = "crashed"
    /\ UNCHANGED <<cvars, xvars, fmsp, hvars, conn, ident, evars, lm, lerr, lframe,
                   rm, rret, linfo, pvars>>

\* where the loop goes with the err of this iteration
AfterError(kind) ==
    IF kind = "nil" THEN "dispatch"
    ELSE IF IsMSPError(kind) THEN "top"
    ELSE IF IsErrClosed(kind) THEN "wait"
    ELSE "rc_check"

\* if err != nil { MSPError: continue; else the reconnect path }
L_ErrCheck ==
    /\ Running /\ lpc = "errcheck"
    /\ lpc' = AfterError(lerr)
    /\ lerr' = "nil"
    /\ UNCHANGED <<cvars, xvars, fmsp, hvars, conn, ident, evars, lm, lframe,
                   rm, rret, linfo, pvars>>

\* time.Sleep(time.Second); timeout := time.Now().Add(5 * time.Second)
L_Wait ==
    /\ Running /\ lpc = "wait"
    /\ lpc' = "spin"
    /\ UNCHANGED <<cvars, xvars, fmsp, hvars, conn, ident, evars, lm, lerr, lframe,
                   rm, rret, linfo, pvars>>

\* the five seconds of the timeout pass while the loop spins
L_Deadline ==
    /\ Running /\ lpc = "spin"
    /\ lpc' = "spin_late"
    /\ UNCHANGED <<cvars, xvars, fmsp, hvars, conn, ident, evars, lm, lerr, lframe,
                   rm, rret, linfo, pvars>>

\* the wait loop left at once, whatever the port and the clock say
L_SpinNoWait ==
    /\ Running /\ lpc \in {"spin", "spin_late"}
    /\ lpc' = "rc_check"
    /\ UNCHANGED <<cvars, xvars, fmsp, hvars, conn, ident, evars, lm, lerr, lframe,
                   rm, rret, linfo, pvars>>

\* for f.portIsPresent() { if timeout.Before(time.Now()) { break } }: the
\* loop is left when the port is seen absent or the timeout has passed
L_Spin ==
    /\ Running /\ lpc \in {"spin", "spin_late"}
    /\ ~portIsPresent \/ lpc = "spin_late"
    /\ lpc' = "rc_check"
    /\ UNCHANGED <<cvars, xvars, fmsp, hvars, conn, ident, evars, lm, lerr, lframe,
                   rm, rret, linfo, pvars>>

\* f.handleFrame(frame, w)
L_Dispatch ==
    /\ Running /\ lpc = "dispatch"
    /\ ident' = handleFrame(ident, lframe)
    /\ dispatched' = [dispatched EXCEPT ![lframe.h] = TRUE]
    /\ channelMap' = IF lframe.code = mspRXMap THEN rxMapOf(boardMap)
                      ELSE channelMap
    /\ lframe' = NoFrame
    /\ lpc' = "top"
    /\ UNCHANGED <<cvars, vvars, fvars, tvars, sticks, boardMap, now, presses, kop, held,
                   fmsp, hstate, hrole, hwrites, nextH, conn, evars, lm, lerr,
                   rm, rret, linfo, pvars>>

\* if err := f.reconnect(); err != nil { panic(err) }; continue
L_Reconnected ==
    /\ Running /\ lpc = "rc_ret"
    /\ lpc' = IF rret # "nil" THEN "fatal" ELSE "top"
    /\ rm' = 0
    /\ UNCHANGED <<cvars, xvars, fmsp, hvars, conn, ident, evars, lm, lerr, lframe,
                   rret, linfo, pvars>>

---------------------------------------------------------------------------
(* src/fc/fc.go: FC.reconnect and FC.updateInfo, run by the read loop *)

\* if f.msp != nil {
R_Check ==
    /\ Running /\ lpc = "rc_check"
    /\ lpc' = IF fmsp # 0 THEN "rc_close" ELSE "rc_poll"
    /\ UNCHANGED <<cvars, xvars, fmsp, hvars, conn, ident, evars, lm, lerr, lframe,
                   rm, rret, linfo, pvars>>

\* f.msp.Close(): f.msp is read again; Close on a nil *MSP panics
R_Close ==
    /\ Running /\ lpc = "rc_close"
    /\ IF fmsp = 0
       THEN lpc' = "crashed" /\ hstate' = hstate
       ELSE lpc' = "rc_nil" /\ hstate' = Close(hstate, fmsp)
    /\ UNCHANGED <<cvars, xvars, fmsp, hrole, hwrites, dispatched, nextH, conn, ident, evars,
                   lm, lerr, lframe, rm, rret, linfo, pvars>>

\* f.msp = nil }
R_Nil ==
    /\ Running /\ lpc = "rc_nil"
    /\ fmsp' = 0
    /\ lpc' = "rc_poll"
    /\ UNCHANGED <<cvars, xvars, hvars, conn, ident, evars, lm, lerr, lframe, rm, rret,
                   linfo, pvars>>

\* one round of the for loop that goes on to the open without looking
\* whether the port is there
R_PollBlind ==
    /\ Running /\ lpc = "rc_poll"
    /\ lpc' = "rc_open"
    /\ UNCHANGED <<cvars, xvars, fmsp, hvars, conn, ident, evars, lm, lerr, lframe,
                   rm, rret, linfo, pvars>>

\* one round of the for loop: if f.portIsPresent() { ... }, else the sleep
R_Poll ==
    /\ Running /\ lpc = "rc_poll"
    /\ lpc' = IF portIsPresent THEN "rc_open" ELSE "rc_sleep"
    /\ UNCHANGED <<cvars, xvars, fmsp, hvars, conn, ident, evars, lm, lerr, lframe,
                   rm, rret, linfo, pvars>>

\* reconnect returning the error of a failed open instead of retrying
R_OpenReturnsError ==
    /\ Running /\ lpc = "rc_open"
    /\ IF OpenSucceeds
       THEN /\ rm' = NewHandle
            /\ nextH' = NewHandle
            /\ hstate' = Opened(hstate, NewHandle)
            /\ hrole' = [hrole EXCEPT ![NewHandle] = "primary"]
            /\ hwrites' = [hwrites EXCEPT ![NewHandle] = <<>>]
            /\ dispatched' = [dispatched EXCEPT ![NewHandle] = FALSE]
            /\ lpc' = "rc_reset"
            /\ rret' = rret
       ELSE /\ lpc' = "rc_ret"
            /\ rret' = "open error"
            /\ UNCHANGED <<rm, hvars>>
    /\ UNCHANGED <<cvars, xvars, fmsp, conn, ident, evars, lm, lerr, lframe, linfo,
                   pvars>>

\* m, err := msp.New(...); if err == nil { ... return nil }; a failed open
\* is dropped and the round ends with the sleep
R_Open ==
    /\ Running /\ lpc = "rc_open"
    /\ IF OpenSucceeds
       THEN /\ rm' = NewHandle
            /\ nextH' = NewHandle
            /\ hstate' = Opened(hstate, NewHandle)
            /\ hrole' = [hrole EXCEPT ![NewHandle] = "primary"]
            /\ hwrites' = [hwrites EXCEPT ![NewHandle] = <<>>]
            /\ dispatched' = [dispatched EXCEPT ![NewHandle] = FALSE]
            /\ lpc' = "rc_reset"
       ELSE /\ lpc' = "rc_sleep"
            /\ UNCHANGED <<rm, hvars>>
    /\ UNCHANGED <<cvars, xvars, fmsp, conn, ident, evars, lm, lerr, lframe, rret,
                   linfo, pvars>>

\* time.Sleep(time.Millisecond), and round again
R_Sleep ==
    /\ Running /\ lpc = "rc_sleep"
    /\ lpc' = "rc_poll"
    /\ UNCHANGED <<cvars, xvars, fmsp, hvars, conn, ident, evars, lm, lerr, lframe,
                   rm, rret, linfo, pvars>>

\* f.reset()
R_Reset ==
    /\ Running /\ lpc = "rc_reset"
    /\ ident' = reset(ident)
    /\ fc' = resetFC(fc)
    /\ resetRX
    /\ lpc' = "rc_assign"
    /\ UNCHANGED <<cvars, vvars, hcall, crit, pid, tchan, gpc, gm, nextT, ticks, rcLate, boardMap, now, presses,
                   held,
                   fmsp, hvars, conn, evars, lm, lerr, lframe, rm, rret,
                   linfo, pvars>>

\* f.msp = m
R_Assign ==
    /\ Running /\ lpc = "rc_assign"
    /\ fmsp' = rm
    /\ conn' = rm
    /\ linfo' = 0
    /\ lpc' = "rc_info"
    /\ UNCHANGED <<cvars, xvars, hvars, ident, evars, lm, lerr, lframe, rm, rret, pvars>>

\* f.updateInfo(): the next f.msp.WriteCmd(...). f.msp is read for each
\* command; WriteCmd on a nil *MSP or on a nil port panics
R_Info ==
    /\ Running /\ lpc = "rc_info"
    /\ linfo < Len(updateInfoCmds)
    /\ IF fmsp = 0 \/ hstate[fmsp] # "open"
       THEN lpc' = "crashed" /\ UNCHANGED <<hwrites, linfo>>
       ELSE /\ hwrites' = [hwrites EXCEPT
                             ![fmsp] = Append(@, Cmd(updateInfoCmds[linfo + 1]))]
            /\ linfo' = linfo + 1
            /\ lpc' = lpc
    /\ UNCHANGED <<cvars, xvars, fmsp, hstate, hrole, dispatched, nextH, conn, ident, evars,
                   lm, lerr, lframe, rm, rret, pvars>>

\* return nil
R_Return ==
    /\ Running /\ lpc = "rc_info"
    /\ linfo = Len(updateInfoCmds)
    /\ rret' = "nil"
    /\ lpc' = "rc_ret"
    /\ UNCHANGED <<cvars, xvars, fmsp, hvars, conn, ident, evars, lm, lerr, lframe, rm,
                   linfo, pvars>>

---------------------------------------------------------------------------
(* src/fc/fc.go: FC.prepareToReboot, called by Reboot and dfuReboot from the *)
(* caller's task                                                             *)

\* what fn writes to the handle it is given: Reboot writes the reboot
\* command, dfuReboot the reboot character
ActionWrite(act) == IF act = "reboot" THEN Cmd(mspReboot) ELSE Raw(RebootChar)

\* FC.Reboot() or FC.dfuReboot() is called; m := f.msp
P_Call ==
    /\ Running /\ ppc = "idle"
    /\ callsLeft > 0
    /\ callsLeft' = callsLeft - 1
    /\ \E a \in {"reboot", "dfu"} : pact' = a
    /\ pm' = fmsp
    /\ plog' = <<>>
    /\ pret' = "none"
    /\ ppc' = "nil"
    /\ UNCHANGED <<cvars, xvars, fmsp, hvars, conn, ident, evars, lvars, pmm>>

\* f.msp = nil
P_Nil ==
    /\ Running /\ ppc = "nil"
    /\ fmsp' = 0
    /\ plog' = Append(plog, "detach")
    /\ ppc' = "close"
    /\ UNCHANGED <<cvars, xvars, hvars, conn, ident, evars, lvars, pm, pmm, pact, pret,
                   callsLeft>>

\* m.Close(): panics when m is nil
P_Close ==
    /\ Running /\ ppc = "close"
    /\ IF pm = 0
       THEN ppc' = "crashed" /\ UNCHANGED <<hstate, plog>>
       ELSE /\ hstate' = Close(hstate, pm)
            /\ plog' = Append(plog, "close")
            /\ ppc' = "sleep"
    /\ UNCHANGED <<cvars, xvars, fmsp, hrole, hwrites, dispatched, nextH, conn, ident, evars,
                   lvars, pm, pmm, pact, pret, callsLeft>>

\* time.Sleep(time.Second)
P_Sleep ==
    /\ Running /\ ppc = "sleep"
    /\ plog' = Append(plog, "sleep")
    /\ ppc' = "open"
    /\ UNCHANGED <<cvars, xvars, fmsp, hvars, conn, ident, evars, lvars, pm, pmm, pact,
                   pret, callsLeft>>

\* mm, err := msp.New(...); if err != nil { return err }
P_Open ==
    /\ Running /\ ppc = "open"
    /\ IF OpenSucceeds
       THEN /\ pmm' = NewHandle
            /\ nextH' = NewHandle
            /\ hstate' = Opened(hstate, NewHandle)
            /\ hrole' = [hrole EXCEPT ![NewHandle] = "temp"]
            /\ hwrites' = [hwrites EXCEPT ![NewHandle] = <<>>]
            /\ dispatched' = [dispatched EXCEPT ![NewHandle] = FALSE]
            /\ plog' = Append(plog, "open")
            /\ ppc' = "act"
            /\ pret' = pret
       ELSE /\ plog' = Append(plog, "open failed")
            /\ pret' = "open error"
            /\ ppc' = "idle"
            /\ UNCHANGED <<pmm, hvars>>
    /\ pm' = IF OpenSucceeds THEN pm ELSE 0
    /\ UNCHANGED <<cvars, xvars, fmsp, conn, ident, evars, lvars, pact, callsLeft>>

\* prepareToReboot handing fn the old handle m instead of mm
P_ActOnOld ==
    /\ Running /\ ppc = "act"
    /\ hwrites' = [hwrites EXCEPT ![pm] = Append(@, ActionWrite(pact))]
    /\ plog' = Append(plog, "action")
    /\ ppc' = "tclose"
    /\ UNCHANGED <<cvars, xvars, fmsp, hstate, hrole, dispatched, nextH, conn, ident,
                   evars, lvars, pm, pmm, pact, pret, callsLeft>>

\* err = fn(mm)
P_Act ==
    /\ Running /\ ppc = "act"
    /\ hwrites' = [hwrites EXCEPT ![pmm] = Append(@, ActionWrite(pact))]
    /\ plog' = Append(plog, "action")
    /\ ppc' = "tclose"
    /\ UNCHANGED <<cvars, xvars, fmsp, hstate, hrole, dispatched, nextH, conn, ident, evars,
                   lvars, pm, pmm, pact, pret, callsLeft>>

\* mm.Close()
P_CloseTemp ==
    /\ Running /\ ppc = "tclose"
    /\ hstate' = Close(hstate, pmm)
    /\ plog' = Append(plog, "close temp")
    /\ ppc' = "ret"
    /\ UNCHANGED <<cvars, xvars, fmsp, hrole, hwrites, dispatched, nextH, conn, ident, evars,
                   lvars, pm, pmm, pact, pret, callsLeft>>

\* return err
P_Return ==
    /\ Running /\ ppc = "ret"
    /\ pret' = "fn result"
    /\ pm' = 0 /\ pmm' = 0
    /\ ppc' = "idle"
    /\ UNCHANGED <<cvars, xvars, fmsp, hvars, conn, ident, evars, lvars, pact,
                   plog, callsLeft>>

---------------------------------------------------------------------------
(* src/msp.go: MSP.encodeArgs and MSPFrame.Read *)

\* src/msp_types.go: MSPSerialConfig with its six fields in declared order
MSPSerialConfig(id, mask, b1, b2, b3, b4) ==
    Struct(<<U8(id), U16(mask), U8(b1), U8(b2), U8(b3), U8(b4)>>)

RECURSIVE encodeArgs(_), encodeEach(_, _)
\* MSP.encodeArgs(w, arg): the bytes written to w
encodeArgs(x) ==
    CASE x.k = "uint8" -> <<x.v>>
      [] x.k = "uint16" -> <<x.v % 256, x.v \div 256>>
      [] x.k = "uint32" -> <<x.v % 256, x.v \div 256, x.h % 256, x.h \div 256>>
      [] OTHER -> encodeEach(x.sub, 1)

\* the loops of encodeArgs over the elements of a slice and the fields of a
\* struct
encodeEach(sub, i) ==
    IF i > Len(sub) THEN <<>>
    ELSE encodeArgs(sub[i]) \o encodeEach(sub, i + 1)

\* what a Read leaves behind: the cursor, the target and the error
Res(pos, out, err) == [pos |-> pos, out |-> out, err |-> err]

\* len(f.Payload) - f.payloadPos
BytesRemaining(pl, pos) == Len(pl) - pos

\* case *uint8
readUint8(pl, pos, x) ==
    IF BytesRemaining(pl, pos) < 1 THEN Res(pos, x, "EOF")
    ELSE Res(pos + 1, [x EXCEPT !.v = pl[pos + 1]], "nil")

\* case *uint16 read with the high byte first
readUint16BigEndian(pl, pos, x) ==
    IF BytesRemaining(pl, pos) < 2 THEN Res(pos, x, "EOF")
    ELSE Res(pos + 2, [x EXCEPT !.v = 256 * pl[pos + 1] + pl[pos + 2]], "nil")

\* case *uint16
readUint16(pl, pos, x) ==
    IF BytesRemaining(pl, pos) < 2 THEN Res(pos, x, "EOF")
    ELSE Res(pos + 2, [x EXCEPT !.v = pl[pos + 1] + 256 * pl[pos + 2]], "nil")

\* case *uint32 without the check of BytesRemaining: binary.LittleEndian
\* panics on a slice shorter than four
readUint32Unchecked(pl, pos, x) ==
    IF BytesRemaining(pl, pos) < 4 THEN Res(pos, x, "panic")
    ELSE Res(pos + 4,
             [x EXCEPT !.v = pl[pos + 1] + 256 * pl[pos + 2],
                       !.h = pl[pos + 3] + 256 * pl[pos + 4]],
             "nil")

\* case *uint32
readUint32(pl, pos, x) ==
    IF BytesRemaining(pl, pos) < 4 THEN Res(pos, x, "EOF")
    ELSE Res(pos + 4,
             [x EXCEPT !.v = pl[pos + 1] + 256 * pl[pos + 2],
                       !.h = pl[pos + 3] + 256 * pl[pos + 4]],
             "nil")

RECURSIVE readPtr(_, _, _), readEach(_, _, _, _)
\* MSPFrame.Read(out) for an out that points to x: an integer, or a struct
\* whose fields are read one by one; a pointer to anything else is the
\* panic at the end of Read
readPtr(pl, pos, x) ==
    CASE x.k = "uint8" -> readUint8(pl, pos, x)
      [] x.k = "uint16" -> readUint16(pl, pos, x)
      [] x.k = "uint32" -> readUint32(pl, pos, x)
      [] x.k = "struct" -> readEach(pl, pos, x, 1)
      [] OTHER -> Res(pos, x, "panic")

\* the loops of Read over the fields of a struct and the elements of a
\* slice, each read through its address; the first error ends the loop
readEach(pl, pos, x, i) ==
    IF i > Len(x.sub) THEN Res(pos, x, "nil")
    ELSE LET r == readPtr(pl, pos, x.sub[i])
             y == [x EXCEPT !.sub[i] = r.out]
         IN  IF r.err # "nil" THEN Res(r.pos, y, r.err)
             ELSE readEach(pl, r.pos, y, i + 1)

\* MSPFrame.Read(out): out is a pointer to x, or the slice x itself
Read(pl, pos, x) ==
    IF x.k = "slice" THEN readEach(pl, pos, x, 1) ELSE readPtr(pl, pos, x)

RECURSIVE Zero(_)
\* a target of the shape of x, every integer 0
Zero(x) == [k |-> x.k, h |-> 0, v |-> 0,
            sub |-> [i \in 1..Len(x.sub) |-> Zero(x.sub[i])]]

\* the serial configurations the values are made of
SerialConfigs == {MSPSerialConfig(0, 1, 5, 4, 3, 2),
                  MSPSerialConfig(20, 33024, 0, 255, 1, 7)}

\* the values encoded: integers of each width with different bytes, the
\* features word, a serial configuration, two of them in a slice, the bytes
\* of an RX map and of a SetRawRC payload
CoderValues ==
    {U8(7), U8(255), U16(258), U16(65280), U32(258, 772), U32(65280, 255)}
      \cup SerialConfigs
      \cup {Slice(<<a, b>>) : a \in SerialConfigs, b \in SerialConfigs}
      \cup {Slice([i \in 1..8 |-> U8(BoardRXMap[i])]),
            Slice(<<U16(RxLow), U16(RxMid), U16(RxHigh)>>)}

\* the targets handed to Read
Targets == {Zero(x) : x \in CoderValues}

\* no Read yet
NoRead == [from |-> 0, tgt |-> U8(0), out |-> U8(0), err |-> "none"]

\* fr.Read(out), out of one of the shapes
V_Read ==
    /\ dec.err # "panic"
    /\ \E tgt \in Targets :
         LET r == Read(frame.Payload, frame.payloadPos, tgt)
         IN  /\ frame' = [frame EXCEPT !.payloadPos = r.pos]
             /\ dec' = [from |-> frame.payloadPos, tgt |-> tgt, out |-> r.out,
                        err |-> r.err]
    /\ UNCHANGED <<cvars, svars, tvars, kvars, fvars, enc, binfo>>

---------------------------------------------------------------------------
(* src/fc/fc.go: the MspBoardInfo case of FC.handleFrame *)

\* boardID and targetName of an FC, and how the handler ended
Info(id, name, err) == [boardID |-> id, targetName |-> name, err |-> err]

\* FC.reset: both strings empty; no frame handled yet
NoInfo == Info(<<>>, <<>>, "none")

\* f.boardID = string(fr.Payload[:4]), a panic when the payload has fewer
\* than four bytes; then the target name, when the payload holds its length
\* at index 8 and that many bytes after it
boardInfo(b, pl) ==
    IF Len(pl) < 4 THEN Info(b.boardID, b.targetName, "panic")
    ELSE Info(SubSeq(pl, 1, 4),
              IF Len(pl) >= 9 /\ Len(pl) > 8 + pl[9]
              THEN SubSeq(pl, 10, 9 + pl[9])
              ELSE b.targetName,
              "nil")

\* a board-info payload of n bytes that declares a name of l bytes, its
\* other bytes counting up from c
InfoBytes(n, l, c) == [i \in 1..n |-> IF i = 9 THEN l ELSE c + i]

InfoPayloads ==
    {InfoBytes(n, l, c) : n \in 0..MaxInfoLen, l \in 0..MaxNameLen,
                          c \in {64, 96}}

\* a board-info frame arrives and is handled
B_Frame ==
    /\ binfo.err # "panic"
    /\ \E pl \in InfoPayloads :
         /\ frame' = [Payload |-> pl, payloadPos |-> 0]
         /\ binfo' = boardInfo(binfo, pl)
    /\ UNCHANGED <<cvars, svars, tvars, kvars, fvars, enc, dec>>

---------------------------------------------------------------------------
(* src/fc/fc.go: FC.handleFrame on the payload of a frame *)

mspSetFeature == 37
mspSetCFSerialConfig == 55
mspEepromWrite == 250
serialFunctionMSP == 1
serialFunctionDebugTrace == 32768
\* 1 << 31 in a uint32: bit 15 of its high half
mspFCFeatureDebugTrace == U32(32768, 0)

\* the strings f.variant is compared with and set to: "INAV", "BTFL"
INAV == <<73, 78, 65, 86>>
BTFL == <<66, 84, 70, 76>>

\* bit i of x
Bit(x, i) == (x \div (2 ^ i)) % 2

RECURSIVE andFrom(_, _, _), orFrom(_, _, _)
\* a & b and a | b on 16 bits, from bit i up
andFrom(a, b, i) ==
    IF i > 15 THEN 0
    ELSE (IF Bit(a, i) = 1 /\ Bit(b, i) = 1 THEN 2 ^ i ELSE 0)
         + andFrom(a, b, i + 1)
orFrom(a, b, i) ==
    IF i > 15 THEN 0
    ELSE (IF Bit(a, i) = 1 \/ Bit(b, i) = 1 THEN 2 ^ i ELSE 0)
         + orFrom(a, b, i + 1)

\* & and | of uint16 and of uint32 values
And16(a, b) == andFrom(a, b, 0)
Or16(a, b) == orFrom(a, b, 0)
And32(x, y) == U32(And16(x.h, y.h), And16(x.v, y.v))
Or32(x, y) == U32(Or16(x.h, y.h), Or16(x.v, y.v))

\* f.msp.WriteCmd(cmd, args...): the command and the bytes of its arguments
Written(cmd, data) == [cmd |-> cmd, data |-> data]

\* what handleFrame leaves behind: the fields of f, f.channelMap, the error
\* it returned ("panic" when it did not return), what it wrote, in order,
\* and whether it printed the summary line of printInfo
Handled(f, cm, err, wrote) ==
    [fc |-> f, channelMap |-> cm, err |-> err, wrote |-> wrote,
     printed |-> FALSE]

\* FC.printInfo without the test of the board id
printInfoNoBoard(f) == f.variant # <<>> /\ f.versionMajor # 0

\* FC.printInfo: the summary line is printed iff this holds
printInfo(f) == f.variant # <<>> /\ f.versionMajor # 0 /\ f.boardID # <<>>

\* f.printInfo() at the end of a case that got there
WithInfo(r) == [r EXCEPT !.printed = printInfo(r.fc)]

\* FC.versionGte with the comparison of the minor version left out when
\* the major version is larger: every field at least as large
versionGteFieldwise(f, major, minor, patch) ==
    /\ f.versionMajor >= major
    /\ f.versionMinor >= minor
    /\ f.versionPatch >= patch

\* FC.versionGte
versionGte(f, major, minor, patch) ==
    \/ f.versionMajor > major
    \/ (f.versionMajor = major /\ f.versionMinor > minor)
    \/ (f.versionMajor = major /\ f.versionMinor = minor
        /\ f.versionPatch >= patch)

\* FC.shouldEnableDebugTrace
shouldEnableDebugTrace(f) ==
    f.EnableDebugTrace /\ f.variant = INAV /\ versionGte(f, 1, 9, 0)

\* case MspAPIVersion: fr.Byte(1), fr.Byte(2), fr.Byte(0) index the payload
apiVersionFrame(f, cm, pl) ==
    IF Len(pl) < 2 \/ Len(pl) < 3 \/ Len(pl) < 1
    THEN Handled(f, cm, "panic", <<>>)
    ELSE Handled(f, cm, "nil", <<>>)

\* case MspFCVariant
fcVariantFrame(f, cm, pl) ==
    WithInfo(Handled([f EXCEPT !.variant = pl], cm, "nil", <<>>))

\* case MspFCVersion: three assignments, each after its fr.Byte
fcVersionFrame(f, cm, pl) ==
    IF Len(pl) < 1 THEN Handled(f, cm, "panic", <<>>)
    ELSE IF Len(pl) < 2
    THEN Handled([f EXCEPT !.versionMajor = pl[1]], cm, "panic", <<>>)
    ELSE IF Len(pl) < 3
    THEN Handled([f EXCEPT !.versionMajor = pl[1], !.versionMinor = pl[2]],
                 cm, "panic", <<>>)
    ELSE WithInfo(Handled([f EXCEPT !.versionMajor = pl[1],
                                    !.versionMinor = pl[2],
                                    !.versionPatch = pl[3]], cm, "nil", <<>>))

\* case MspBoardInfo
boardInfoFrame(f, cm, pl) ==
    LET b == boardInfo(Info(f.boardID, f.targetName, "none"), pl)
        r == Handled([f EXCEPT !.boardID = b.boardID,
                               !.targetName = b.targetName], cm, b.err, <<>>)
    IN  IF b.err = "panic" THEN r ELSE WithInfo(r)

\* case MspBuildInfo: fr.Payload[:11], fr.Payload[11:19], fr.Payload[19:]
buildInfoFrame(f, cm, pl) ==
    IF Len(pl) < 11 \/ Len(pl) < 19 THEN Handled(f, cm, "panic", <<>>)
    ELSE Handled(f, cm, "nil", <<>>)

\* the two writes of case MspFeature in the other order
featureWritesSwapped(x) ==
    <<Written(mspEepromWrite, <<>>), Written(mspSetFeature, encodeArgs(x))>>

\* the two writes of case MspFeature: the features, then the EEPROM write
featureWrites(x) ==
    <<Written(mspSetFeature, encodeArgs(x)), Written(mspEepromWrite, <<>>)>>

\* case MspFeature: the error of fr.Read is dropped
featureFrame(f, cm, pl) ==
    LET g == [f EXCEPT !.Features = Read(pl, 0, f.Features).out]
    IN  IF And32(g.Features, mspFCFeatureDebugTrace) = U32(0, 0)
           /\ shouldEnableDebugTrace(g)
        THEN LET x == Or32(g.Features, mspFCFeatureDebugTrace)
             IN  Handled([g EXCEPT !.Features = x], cm, "nil",
                         featureWrites(x))
        ELSE Handled(g, cm, "nil", <<>>)

\* cfg.FunctionMask of a serial configuration
FunctionMask(cfg) == cfg.sub[2].v

RECURSIVE readConfigs(_, _, _, _)
\* the loop of case MspCFSerialConfig: fr.Read(&cfg) into the one cfg until
\* it returns io.EOF, each cfg read appended to serialConfigs; any other
\* error is a panic
readConfigs(pl, pos, cfg, acc) ==
    LET r == Read(pl, pos, cfg)
    IN  IF r.err = "EOF" THEN [configs |-> acc, err |-> "nil"]
        ELSE IF r.err # "nil" THEN [configs |-> acc, err |-> "panic"]
        ELSE readConfigs(pl, r.pos, r.out, Append(acc, r.out))

\* cfg.FunctionMask&mask == mask for one of the configurations
hasDebugTraceMSPPort(cfgs) ==
    LET mask == Or16(serialFunctionMSP, serialFunctionDebugTrace)
    IN  \E i \in 1..Len(cfgs) : And16(FunctionMask(cfgs[i]), mask) = mask

\* the configurations that carry serialFunctionMSP
MSPPorts(cfgs) ==
    {i \in 1..Len(cfgs) :
       And16(FunctionMask(cfgs[i]), serialFunctionMSP) # 0}

\* the loop that enables the trace on every MSP port
enableOnEveryMSPPort(cfgs) ==
    [i \in 1..Len(cfgs) |->
       IF i \in MSPPorts(cfgs)
       THEN [cfgs[i] EXCEPT !.sub[2].v = Or16(@, serialFunctionDebugTrace)]
       ELSE cfgs[i]]

\* the loop that enables the trace on the first MSP port and breaks
enableOnFirstMSPPort(cfgs) ==
    [i \in 1..Len(cfgs) |->
       IF i \in MSPPorts(cfgs) /\ \A j \in MSPPorts(cfgs) : i <= j
       THEN [cfgs[i] EXCEPT !.sub[2].v = Or16(@, serialFunctionDebugTrace)]
       ELSE cfgs[i]]

\* case MspCFSerialConfig
serialConfigFrame(f, cm, pl) ==
    IF ~shouldEnableDebugTrace(f) THEN Handled(f, cm, "nil", <<>>)
    ELSE LET r == readConfigs(pl, 0, Zero(MSPSerialConfig(0, 0, 0, 0, 0, 0)),
                              <<>>)
         IN  IF r.err = "panic" THEN Handled(f, cm, "panic", <<>>)
             ELSE IF hasDebugTraceMSPPort(r.configs)
             THEN Handled(f, cm, "nil", <<>>)
             ELSE Handled(f, cm, "nil",
                    <<Written(mspSetCFSerialConfig,
                              encodeArgs(Slice(enableOnFirstMSPPort(r.configs)))),
                      Written(mspEepromWrite, <<>>)>>)

\* case MspRXMap: the error of fr.Read is returned
rxMapFrame(f, cm, pl) ==
    Handled(f, rxMapOf(pl), IF Len(pl) < 8 THEN "EOF" ELSE "nil", <<>>)

\* FC.handleFrame(fr, w) for a frame of the code and the payload pl
handlePayload(f, cm, code, pl) ==
    CASE code = mspAPIVersion -> apiVersionFrame(f, cm, pl)
      [] code = mspFCVariant -> fcVariantFrame(f, cm, pl)
      [] code = mspFCVersion -> fcVersionFrame(f, cm, pl)
      [] code = mspBoardInfo -> boardInfoFrame(f, cm, pl)
      [] code = mspBuildInfo -> buildInfoFrame(f, cm, pl)
      [] code = mspFeature -> featureFrame(f, cm, pl)
      [] code = mspCFSerialConfig -> serialConfigFrame(f, cm, pl)
      [] code = mspRXMap -> rxMapFrame(f, cm, pl)
      [] OTHER -> Handled(f, cm, "nil", <<>>)

\* a frame as ReadFrame returns it
Fr(code, pl) == [code |-> code, payload |-> pl]

\* the serial configurations a board reports: an MSP port, a port with MSP
\* and the trace, a port with another function
PortConfigs ==
    {MSPSerialConfig(0, 1, 5, 4, 3, 2), MSPSerialConfig(1, 32769, 5, 4, 3, 2),
     MSPSerialConfig(3, 2, 1, 7, 0, 9)}

\* the payloads of serial-config frames: up to MaxRecords configurations,
\* and up to one configuration followed by the first bytes of one more
SerialPayloads ==
    {encodeArgs(Slice(l)) :
       l \in UNION {[1..n -> PortConfigs] : n \in 0..MaxRecords}}
      \cup {encodeArgs(Slice(l)) \o <<4, 1, 128>> :
              l \in UNION {[1..n -> PortConfigs] : n \in 0..1}}

\* the frames the board sends: of every handled code, with payloads as long
\* as the handler needs and shorter
HandlerFrames ==
    {Fr(mspAPIVersion, Take(<<0, 2, 4>>, n)) : n \in 0..3}
      \cup {Fr(mspFCVariant, v) : v \in {INAV, BTFL, <<>>}}
      \cup {Fr(mspFCVersion, v) :
              v \in {<<1, 8, 9>>, <<1, 9, 0>>, <<2, 0, 0>>, <<1, 9>>, <<>>}}
      \cup {Fr(mspBoardInfo, InfoBytes(n, 2, 64)) : n \in {3, 11}}
      \cup {Fr(mspBuildInfo, Zeros(n)) : n \in {0, 18, 19}}
      \cup {Fr(mspFeature, encodeArgs(x)) :
              x \in {U32(0, 0), U32(258, 772), U32(33026, 772)}}
      \cup {Fr(mspFeature, <<2, 1>>)}
      \cup {Fr(mspCFSerialConfig, pl) : pl \in SerialPayloads}
      \cup {Fr(mspRXMap, Take(BoardRXMap, n)) : n \in {3, 8}}
      \cup {Fr(mspDebugMsg, <<72, 105>>)}

\* a round of StartUpdating's loop in which ReadFrame returns a frame, and
\* handleFrame on it; the writes go to the open port of f.msp
H_Frame ==
    /\ Running /\ lpc = "top"
    /\ fmsp # 0 /\ hstate[fmsp] = "open"
    /\ \E fr \in HandlerFrames :
         LET r == handlePayload(fc, channelMap, fr.code, fr.payload)
         IN  /\ fc' = r.fc
             /\ channelMap' = r.channelMap
             /\ hcall' = [code |-> fr.code, payload |-> fr.payload,
                          was |-> fc, wasMap |-> channelMap, err |-> r.err,
                          wrote |-> r.wrote, printed |-> r.printed]
             /\ lpc' = IF r.err = "panic" THEN "crashed" ELSE "top"
    /\ UNCHANGED <<cvars, tvars, vvars, crit, pid, sticks, boardMap, now,
                   presses, kop, held, fmsp, hstate, hrole, hwrites, dispatched, nextH,
                   conn, ident, evars, lm, lerr, lframe, rm, rret, linfo,
                   pvars>>

---------------------------------------------------------------------------
(* src/fc/fc.go: the MspPID case of FC.handleFrame *)

\* the length of pidMap
PidBytes == 30

\* Pid{FlightSurface, Value}
Pid(name, value) == [FlightSurface |-> name, Value |-> value]

\* an entry of the map f.PidMap
Entry(key, p) == [key |-> key, pid |-> p]

\* the map literal assigned to f.PidMap: the nine Pid values made of the
\* slices pidMap[0:3] .. pidMap[19:22], under their keys
pidEntries(pidMap) ==
    {Entry("roll", Pid("roll", SubSeq(pidMap, 1, 3))),
     Entry("pitch", Pid("pitch", SubSeq(pidMap, 4, 6))),
     Entry("yaw", Pid("pitch", SubSeq(pidMap, 7, 8))),
     Entry("alt", Pid("alt", SubSeq(pidMap, 9, 11))),
     Entry("vel", Pid("vel", SubSeq(pidMap, 12, 14))),
     Entry("mag", Pid("mag", SubSeq(pidMap, 15, 15))),
     Entry("pos", Pid("pos", SubSeq(pidMap, 16, 16))),
     Entry("posR", Pid("posR", SubSeq(pidMap, 17, 19))),
     Entry("navR", Pid("navR", SubSeq(pidMap, 20, 22)))}

\* case MspPID: pidMap := make([]uint8, 30); fr.Read(pidMap), whose error
\* is returned; f.PidMap is assigned; a w that is a PIDReceiver gets it
pidFrame(old, pl, registered) ==
    LET r == Read(pl, 0, Slice([i \in 1..PidBytes |-> U8(0)]))
        pidMap == [i \in 1..PidBytes |-> r.out.sub[i].v]
    IN  IF r.err # "nil"
        THEN [PidMap |-> old, err |-> r.err, received |-> <<>>]
        ELSE [PidMap |-> pidEntries(pidMap), err |-> "nil",
              received |-> IF registered THEN <<pidEntries(pidMap)>>
                           ELSE <<>>]

\* a PID payload of n bytes counting up from c
PidPayload(n, c) == [i \in 1..n |-> c + i]

\* the PID payloads the board sends: whole, longer and cut short
PidPayloads ==
    {PidPayload(n, c) : n \in {0, 22, PidBytes - 1, PidBytes, PidBytes + 1},
                        c \in {0, 50, 100, 200}}

\* NewFC: f.PidMap is nil, no PID frame handled yet; registered says
\* whether the w handed to StartUpdating is a PIDReceiver
NoPid(registered) ==
    [PidMap |-> {}, was |-> {}, payload |-> <<>>, err |-> "none",
     received |-> <<>>, registered |-> registered]

\* a round of StartUpdating's loop in which ReadFrame returns a PID frame,
\* and handleFrame on it
D_Frame ==
    /\ Running /\ lpc = "top"
    /\ fmsp # 0 /\ hstate[fmsp] = "open"
    /\ \E pl \in PidPayloads :
         LET r == pidFrame(pid.PidMap, pl, pid.registered)
         IN  pid' = [PidMap |-> r.PidMap, was |-> pid.PidMap, payload |-> pl,
                     err |-> r.err, received |-> r.received,
                     registered |-> pid.registered]
    /\ UNCHANGED <<cvars, svars, tvars, kvars, vvars, fc, hcall, crit>>

---------------------------------------------------------------------------
(* src/unnamed/part_004: the calls on the sticks, each under RxSticks.mu *)

\* everything but the RX simulation
restvars == <<cvars, svars, vvars, fvars>>

\* the channel maps handed to ToMSP: four permutations of the axes, a map
\* naming one position twice, a nil map, a map naming a fifth position
RXMaps == {BoardRXMap, <<0, 1, 2, 3, 4, 5, 6, 7>>, <<3, 2, 1, 0, 4, 5, 6, 7>>,
           <<1, 2, 3, 0, 4, 5, 6, 7>>, <<0, 0, 0, 0, 0, 0, 0, 0>>, <<>>,
           <<0, 1, 2, 4, 3, 5, 6, 7>>}

\* a panic of a call on the sticks ends the process
SticksRunning == Running /\ kop.op # "panic"

\* the auxiliary channel a toggle key switches, counted from 0: RXKey1 is
\* the ninth key and switches channel 5, the first of Channels
AuxOf(key) == (CHOOSE i \in 1..Len(RXKeys) : RXKeys[i] = key) - 9

\* what a toggle key finds in its channel
Was(r, key) == IF key \in ToggleKeys THEN r.Channels[AuxOf(key)] ELSE 0

\* a step of the clock: more than half a keyTimeout, less than a whole
ClockStep == (3 * keyTimeout) \div 5

\* the clock moves on
K_Clock ==
    /\ SticksRunning
    /\ now < MaxClock * ClockStep
    /\ now' = now + ClockStep
    /\ UNCHANGED <<restvars, tvars, sticks, channelMap, boardMap, presses, kop, held>>

\* RxSticks.Keypress(key)
K_Keypress ==
    /\ SticksRunning
    /\ presses < MaxPress
    /\ presses' = presses + 1
    /\ \E key \in KeySet :
         /\ StickStep(Keypress(sticks, key, now),
                      Call("keypress", key, now, Was(sticks, key), <<>>, <<>>))
         /\ held' = IF key \in DirKeys
                    THEN [held EXCEPT ![AxisOf(key)] = At(now)]
                    ELSE held
    /\ UNCHANGED <<restvars, tvars, channelMap, boardMap, now>>

\* RxSticks.Update()
K_Update ==
    /\ SticksRunning
    /\ StickStep(Update(sticks, now), Call("update", "", now, 0, <<>>, <<>>))
    /\ UNCHANGED <<restvars, tvars, channelMap, boardMap, now, presses, held>>

\* RxSticks.Reset()
K_Reset ==
    /\ SticksRunning
    /\ StickStep(Reset(sticks), Call("reset", "", 0, 0, <<>>, <<>>))
    /\ UNCHANGED <<restvars, tvars, channelMap, boardMap, now, presses, held>>

\* RxSticks.ToMSP(cm): the payload is returned, or an index is out of range
ToMSPCall(cm) ==
    IF ToMSPPanics(cm)
    THEN StickStep(sticks, Call("panic", "", 0, 0, cm, <<>>))
    ELSE StickStep(sticks, Call("tomsp", "", 0, 0, cm, ToMSP(sticks, cm)))

K_ToMSP ==
    /\ SticksRunning
    /\ \E cm \in RXMaps : ToMSPCall(cm)
    /\ UNCHANGED <<restvars, tvars, channelMap, boardMap, now, presses, held>>

---------------------------------------------------------------------------
(* src/unnamed/part_004: Keypress, Update and ToMSP as calls of two tasks *)
(* under RxSticks.mu, step by step                                         *)

\* the keys the input task presses
LockKeys == {"W", "1"}

\* the calls a task makes: the input task presses keys (src/main.go:332),
\* the goroutine of the RX simulation calls Update and ToMSP
CallsOf(t) ==
    IF t = "input"
    THEN {[pc |-> "in", op |-> "keypress", key |-> k] : k \in LockKeys}
    ELSE {[pc |-> "in", op |-> o, key |-> ""] : o \in {"update", "tomsp"}}

\* r.mu.Lock() at the start of a call: it returns once the mutex is free
M_Lock ==
    /\ Running
    /\ \E t \in Tasks :
         /\ crit[t].pc = "out"
         /\ sticks.mu = "unlocked"
         /\ sticks' = [sticks EXCEPT !.mu = t]
         /\ \E c \in CallsOf(t) : crit' = [crit EXCEPT ![t] = c]
    /\ UNCHANGED <<cvars, svars, tvars, vvars, fc, hcall, pid, channelMap,
                   boardMap, now, presses, kop, held>>

\* Keypress: the switch over the key
M_Switch ==
    /\ Running
    /\ \E t \in Tasks :
         /\ crit[t].pc = "in" /\ crit[t].op = "keypress"
         /\ sticks' = KeypressSwitch(sticks, crit[t].key)
         /\ crit' = [crit EXCEPT ![t].pc = "stamp"]
    /\ UNCHANGED <<cvars, svars, tvars, vvars, fc, hcall, pid, channelMap,
                   boardMap, now, presses, kop, held>>

\* Keypress: r.lastPress[key] = time.Now()
M_Stamp ==
    /\ Running
    /\ \E t \in Tasks :
         /\ crit[t].pc = "stamp"
         /\ sticks' = [sticks EXCEPT !.lastPress[crit[t].key] = At(now)]
         /\ crit' = [crit EXCEPT ![t].pc = "unlock"]
    /\ UNCHANGED <<cvars, svars, tvars, vvars, fc, hcall, pid, channelMap,
                   boardMap, now, presses, kop, held>>

\* Update: its body
M_Update ==
    /\ Running
    /\ \E t \in Tasks :
         /\ crit[t].pc = "in" /\ crit[t].op = "update"
         /\ sticks' = Update(sticks, now)
         /\ crit' = [crit EXCEPT ![t].pc = "unlock"]
    /\ UNCHANGED <<cvars, svars, tvars, vvars, fc, hcall, pid, channelMap,
                   boardMap, now, presses, kop, held>>

\* ToMSP(f.channelMap): its body; an index out of range is a panic
M_ToMSP ==
    /\ Running
    /\ \E t \in Tasks :
         /\ crit[t].pc = "in" /\ crit[t].op = "tomsp"
         /\ ToMSPCall(channelMap)
         /\ crit' = [crit EXCEPT
                       ![t].pc = IF ToMSPPanics(channelMap) THEN "fatal"
                                 ELSE "unlock"]
    /\ UNCHANGED <<cvars, svars, tvars, vvars, fc, hcall, pid, channelMap,
                   boardMap, now, presses, held>>

\* the deferred r.mu.Unlock(): whoever locked it, the mutex is free after
\* it; the unlock of an unlocked mutex is a fatal error of the runtime
M_Unlock ==
    /\ Running
    /\ \E t \in Tasks :
         /\ crit[t].pc = "unlock"
         /\ IF sticks.mu = "unlocked"
            THEN /\ crit' = [crit EXCEPT ![t].pc = "fatal"]
                 /\ sticks' = sticks
            ELSE /\ crit' = [crit EXCEPT ![t] = NoCrit]
                 /\ sticks' = [sticks EXCEPT !.mu = "unlocked"]
    /\ UNCHANGED <<cvars, svars, tvars, vvars, fc, hcall, pid, channelMap,
                   boardMap, now, presses, kop, held>>

---------------------------------------------------------------------------
(* src/fc/fc.go: FC.ToggleRXSimulation and the goroutine it starts *)

mspSetRawRC == 200

\* ToggleRXSimulation(): with a ticker, Stop() it and drop it; without one,
\* make one and start the goroutine that ranges over its channel
T_Toggle ==
    /\ Running
    /\ IF rxTicker # 0
       THEN /\ tstate' = [tstate EXCEPT ![rxTicker] = "stopped"]
            /\ rxTicker' = 0
            /\ UNCHANGED <<gpc, nextT>>
       ELSE /\ nextT < MaxTickers
            /\ nextT' = nextT + 1
            /\ rxTicker' = nextT + 1
            /\ tstate' = [tstate EXCEPT ![nextT + 1] = "running"]
            /\ gpc' = [gpc EXCEPT ![nextT + 1] = "recv"]
    /\ UNCHANGED <<restvars, kvars, tchan, gm, ticks, rcLate>>

\* the runtime's timer: a running ticker puts a tick into its channel,
\* which holds one; Stop ends that and leaves the channel as it is
Tick ==
    /\ Running
    /\ \E t \in Tickers :
         /\ tstate[t] = "running" /\ tchan[t] = 0
         /\ tchan' = [tchan EXCEPT ![t] = 1]
    /\ ticks < MaxTicks
    /\ ticks' = ticks + 1
    /\ UNCHANGED <<restvars, kvars, rxTicker, tstate, gpc, gm, nextT, rcLate>>

\* for range t.C: the next tick is received
G_Recv ==
    /\ Running
    /\ \E t \in Tickers :
         /\ gpc[t] = "recv" /\ tchan[t] = 1
         /\ tchan' = [tchan EXCEPT ![t] = 0]
         /\ gpc' = [gpc EXCEPT ![t] = "update"]
    /\ UNCHANGED <<restvars, kvars, rxTicker, tstate, gm, nextT, ticks, rcLate>>

\* f.sticks.Update()
G_Update ==
    /\ Running
    /\ \E t \in Tickers :
         /\ gpc[t] = "update"
         /\ gpc' = [gpc EXCEPT ![t] = "load"]
    /\ StickStep(Update(sticks, now), Call("update", "", now, 0, <<>>, <<>>))
    /\ UNCHANGED <<restvars, rxTicker, tstate, tchan, gm, nextT, ticks, rcLate,
                   channelMap, boardMap, now, presses, held>>

\* m := f.msp; if m == nil { continue }
G_Load ==
    /\ Running
    /\ \E t \in Tickers :
         /\ gpc[t] = "load"
         /\ gm' = [gm EXCEPT ![t] = fmsp]
         /\ gpc' = [gpc EXCEPT ![t] = IF fmsp = 0 THEN "recv" ELSE "tomsp"]
    /\ UNCHANGED <<restvars, kvars, rxTicker, tstate, tchan, nextT, ticks, rcLate>>

\* f.sticks.ToMSP(f.channelMap), the argument of WriteCmd: a panic of ToMSP
\* is a panic of the goroutine
G_ToMSP ==
    /\ Running
    /\ \E t \in Tickers :
         /\ gpc[t] = "tomsp"
         /\ gpc' = [gpc EXCEPT ![t] = IF ToMSPPanics(channelMap)
                                      THEN "crashed" ELSE "write"]
    /\ ToMSPCall(channelMap)
    /\ UNCHANGED <<restvars, rxTicker, tstate, tchan, gm, nextT, ticks, rcLate,
                   channelMap, boardMap, now, presses, held>>

\* m.WriteCmd(msp.MspSetRawRC, ...): m.port.Write, a panic when Close has
\* set the port to nil
G_Write ==
    /\ Running
    /\ \E t \in Tickers :
         /\ gpc[t] = "write"
         /\ IF hstate[gm[t]] = "open"
            THEN /\ hwrites' = [hwrites EXCEPT
                                  ![gm[t]] = Append(@, Cmd(mspSetRawRC))]
                 /\ rcLate' = (rcLate \/ rxTicker = 0)
                 /\ gpc' = [gpc EXCEPT ![t] = "recv"]
            ELSE /\ gpc' = [gpc EXCEPT ![t] = "crashed"]
                 /\ UNCHANGED <<hwrites, rcLate>>
    /\ UNCHANGED <<cvars, kvars, vvars, fvars, rxTicker, tstate, tchan, gm, nextT, ticks,
                   fmsp, hstate, hrole, dispatched, nextH, conn, ident, evars,
                   lvars, pvars>>

---------------------------------------------------------------------------
(* Specifications *)

\* the codec's variables while the session runs
CodecIdle ==
    /\ input = In("none", 0, <<>>, <<>>)
    /\ wire = <<>> /\ rxbuf = <<>> /\ whole = TRUE
    /\ rpc = "done" /\ hdr = <<>> /\ payload = <<>> /\ ccrc = 0
    /\ res = NoRes

\* NewFC leaves rxTicker nil: no ticker, no goroutine
TickerIdle ==
    /\ rxTicker = 0 /\ nextT = 0 /\ ticks = 0 /\ rcLate = FALSE
    /\ tstate = [t \in Tickers |-> "none"]
    /\ tchan = [t \in Tickers |-> 0]
    /\ gpc = [t \in Tickers |-> "none"]
    /\ gm = [t \in Tickers |-> 0]

\* NewFC's reset(): centred sticks, no channel map, no call on the sticks yet
SticksInit ==
    /\ sticks = resetSticks /\ channelMap = <<>>
    /\ now = 0 /\ presses = 0
    /\ kop = NoCall
    /\ held = [a \in Axes |-> NoTime]

\* no key is pressed, the board reports the default map
SticksIdle == SticksInit /\ boardMap = BoardRXMap

\* no payload is being decoded
PayloadIdle ==
    /\ frame = [Payload |-> <<>>, payloadPos |-> 0]
    /\ enc = U8(0) /\ dec = NoRead /\ binfo = NoInfo

\* NewFC's reset() with the option main sets by default, no frame handled
\* yet, no task in a call on the sticks
HandlerIdle ==
    /\ fc = NewFields(TRUE) /\ hcall = NoHandled
    /\ crit = [t \in Tasks |-> NoCrit]
    /\ pid = NoPid(TRUE)

\* the added parts at rest
ExtIdle == TickerIdle /\ SticksIdle /\ PayloadIdle /\ HandlerIdle

\* src/fc/fc.go NewFC: the port is open, reset() and updateInfo() have run
NewFC ==
    /\ fmsp = 1 /\ conn = 1
    /\ hstate = [h \in Handles |-> IF h = 1 THEN "open" ELSE "none"]
    /\ hrole = [h \in Handles |-> IF h = 1 THEN "primary" ELSE "none"]
    /\ hwrites = [h \in Handles |->
                    IF h = 1
                    THEN [i \in 1..Len(updateInfoCmds) |-> Cmd(updateInfoCmds[i])]
                    ELSE <<>>]
    /\ dispatched = [h \in Handles |-> FALSE]
    /\ nextH = 1
    /\ ident = reset(NoIdentity)

\* the session right after NewFC, before StartUpdating's first round
SessionInit ==
    /\ NewFC
    /\ port = "ok"
    /\ lpc = "top" /\ lm = 0 /\ lerr = "nil" /\ lframe = NoFrame
    /\ rm = 0 /\ rret = "nil" /\ linfo = 0
    /\ ppc = "idle" /\ pm = 0 /\ pmm = 0 /\ pact = "reboot" /\ plog = <<>>
    /\ pret = "none"

\* the session's variables while one ReadFrame call is examined
SessionIdle == SessionInit /\ callsLeft = 0 /\ sends = {}

\* a stream on the wire, all of it arrived or none of it yet
CodecInit ==
    /\ input \in Inputs
    /\ whole \in BOOLEAN
    /\ wire = (IF whole THEN <<>> ELSE input.bytes)
    /\ rxbuf = (IF whole THEN input.bytes ELSE <<>>)
    /\ rpc = "marker" /\ hdr = <<>> /\ payload = <<>> /\ ccrc = 0
    /\ res = NoRes
    /\ SessionIdle /\ ExtIdle

CodecNext ==
    \/ Arrive
    \/ RF_Marker \/ RF_Type
    \/ V1_Header \/ V1_Payload \/ V1_Checksum
    \/ V2_Header \/ V2_Payload \/ V2_Checksum

SpecCodec == CodecInit /\ [][CodecNext]_vars

ReadLoopNext ==
    \/ L_Load \/ L_ReadBegin \/ L_ReadFrame \/ L_ReadError \/ L_ReadNilPort
    \/ L_ErrCheck \/ L_Wait \/ L_Deadline \/ L_Spin \/ L_Dispatch
    \/ L_Reconnected
    \/ R_Check \/ R_Close \/ R_Nil \/ R_Poll \/ R_Open \/ R_Sleep \/ R_Reset
    \/ R_Assign \/ R_Info \/ R_Return

CallerNext ==
    \/ P_Call \/ P_Nil \/ P_Close \/ P_Sleep \/ P_Open \/ P_Act
    \/ P_CloseTemp \/ P_Return

SessionNext == ReadLoopNext \/ CallerNext \/ PortChange

\* the read loop, the caller task and the device
SessionStart ==
    /\ CodecIdle /\ SessionInit /\ ExtIdle
    /\ callsLeft = MaxCalls /\ sends = {mspFCVariant}

SpecSession == SessionStart /\ [][SessionNext]_vars

\* the read loop is a goroutine of its own: it is scheduled again and again
SpecSessionFair == SpecSession /\ WF_vars(ReadLoopNext)

\* the read loop without the steps that only a Close by another task enables
IdentNext ==
    \/ L_Load \/ L_ReadBegin \/ L_ReadFrame \/ L_ReadError
    \/ L_ErrCheck \/ L_Dispatch \/ L_Reconnected
    \/ R_Check \/ R_Close \/ R_Nil \/ R_Poll \/ R_Open \/ R_Sleep \/ R_Reset
    \/ R_Assign \/ R_Info \/ R_Return
    \/ PortChange

\* the read loop and the device, the caller task making no call
IdentStart ==
    /\ CodecIdle /\ SessionInit /\ ExtIdle
    /\ callsLeft = 0 /\ sends = FrameCodes

SpecIdent == IdentStart /\ [][IdentNext]_vars

\* keys pressed and timeouts passing, from the sticks FC.reset made
SticksNext == K_Clock \/ K_Keypress \/ K_Update \/ K_Reset

SticksStart == CodecIdle /\ SessionIdle /\ ExtIdle

SpecSticks == SticksStart /\ [][SticksNext]_vars

\* keys pressed and snapshots taken for the board
SnapshotNext == K_Keypress \/ K_ToMSP

SpecSnapshot == SticksStart /\ [][SnapshotNext]_vars

\* RX simulation toggled by the input task while the session stays connected
TickerNext ==
    \/ T_Toggle \/ Tick \/ G_Recv \/ G_Update \/ G_Load \/ G_ToMSP \/ G_Write

\* the session after the read loop has dispatched the board's RX map frame
TickerStart ==
    /\ CodecIdle /\ TickerIdle
    /\ fmsp = 1 /\ conn = 1
    /\ hstate = [h \in Handles |-> IF h = 1 THEN "open" ELSE "none"]
    /\ hrole = [h \in Handles |-> IF h = 1 THEN "primary" ELSE "none"]
    /\ hwrites = [h \in Handles |->
                    IF h = 1
                    THEN [i \in 1..Len(updateInfoCmds) |-> Cmd(updateInfoCmds[i])]
                    ELSE <<>>]
    /\ dispatched = [h \in Handles |-> h = 1]
    /\ nextH = 1
    /\ ident = [NoIdentity EXCEPT !["channelMap"] = 1]
    /\ port = "ok" /\ sends = {mspRXMap} /\ callsLeft = 0
    /\ lpc = "top" /\ lm = 1 /\ lerr = "nil" /\ lframe = NoFrame
    /\ rm = 0 /\ rret = "nil" /\ linfo = 0
    /\ ppc = "idle" /\ pm = 0 /\ pmm = 0 /\ pact = "reboot" /\ plog = <<>>
    /\ pret = "none"
    /\ sticks = resetSticks /\ boardMap = BoardRXMap
    /\ channelMap = rxMapOf(boardMap)
    /\ now = 0 /\ presses = 0
    /\ kop = NoCall
    /\ held = [a \in Axes |-> NoTime]
    /\ PayloadIdle /\ HandlerIdle

SpecTicker == TickerStart /\ [][TickerNext]_vars

\* the RX map payloads a board sends: the default map, and a map whose
\* fourth entry names the fifth channel
BoardMaps == {BoardRXMap, <<0, 1, 2, 4, 3, 5, 6, 7>>}

\* RX simulation toggled while the read loop reads and dispatches the
\* board's RX map frames and the caller task reboots the board, up to the
\* read loop's first disconnection
SimulationNext ==
    \/ TickerNext \/ CallerNext
    \/ L_Load \/ L_ReadBegin \/ L_ReadFrame \/ L_ErrCheck \/ L_Dispatch

\* the session right after NewFC: no RX map frame has been dispatched yet
SimulationStart ==
    /\ CodecIdle /\ SessionInit /\ TickerIdle /\ SticksInit /\ PayloadIdle
    /\ HandlerIdle
    /\ boardMap \in BoardMaps
    /\ callsLeft = MaxCalls /\ sends = {mspRXMap}

SpecSimulation == SimulationStart /\ [][SimulationNext]_vars

\* a frame whose payload is an encoded value, whole or cut short at its end
CoderStart ==
    /\ CodecIdle /\ SessionIdle /\ TickerIdle /\ SticksIdle /\ HandlerIdle
    /\ enc \in CoderValues
    /\ \E cut \in 0..MaxCut :
         frame = [Payload |-> Take(encodeArgs(enc),
                                    Len(encodeArgs(enc)) - cut),
                  payloadPos |-> 0]
    /\ dec = NoRead /\ binfo = NoInfo

\* Reads of one frame's payload, one after the other
SpecCoder == CoderStart /\ [][V_Read]_vars

\* board-info frames handled one after the other
SpecBoardInfo == SticksStart /\ [][B_Frame]_vars

\* the session right after NewFC, with the option set or not
HandlerStart ==
    /\ CodecIdle /\ SessionIdle /\ TickerIdle /\ SticksIdle /\ PayloadIdle
    /\ \E trace \in BOOLEAN : fc = NewFields(trace)
    /\ hcall = NoHandled
    /\ crit = [t \in Tasks |-> NoCrit]
    /\ pid = NoPid(TRUE)

\* the session right after NewFC, with a PID consumer or without
PidStart ==
    /\ CodecIdle /\ SessionIdle /\ TickerIdle /\ SticksIdle /\ PayloadIdle
    /\ fc = NewFields(TRUE) /\ hcall = NoHandled
    /\ crit = [t \in Tasks |-> NoCrit]
    /\ \E registered \in BOOLEAN : pid = NoPid(registered)

\* PID frames arrive and are handled one after the other
SpecPid == PidStart /\ [][D_Frame]_vars

\* the payloads handed to WriteCmd: n bytes counting up from c
EncPayload(n, c) == [i \in 1..n |-> (c + i) % 256]
EncLens == {0, 1, 2, 255, 256, 257, 259}
EncPayloads == {EncPayload(n, c) : n \in EncLens, c \in {0, 77, 200}}

\* MSP.WriteCmd: the encoded arguments go through mspV1Encode
E_WriteCmd ==
    /\ input.kind = "none"
    /\ input' = In("v1", input.cmd, input.data,
                   mspV1Encode(input.cmd, input.data))
    /\ UNCHANGED <<wire, rxbuf, whole, rpc, hdr, payload, ccrc, res>>
    /\ UNCHANGED <<svars, xvars>>

\* a command and the bytes of its arguments, not encoded yet
EncodeStart ==
    /\ \E c \in CmdVals, p \in EncPayloads : input = In("none", c, p, <<>>)
    /\ wire = <<>> /\ rxbuf = <<>> /\ whole = TRUE
    /\ rpc = "done" /\ hdr = <<>> /\ payload = <<>> /\ ccrc = 0
    /\ res = NoRes
    /\ SessionIdle /\ TickerIdle /\ SticksIdle /\ PayloadIdle /\ HandlerIdle

\* commands encoded for the wire
SpecEncode == EncodeStart /\ [][E_WriteCmd]_vars

\* the bytes the checksum loops are run over
CrcVals == {0, 1, 128, 213, 255}
CrcInputs ==
    UNION {[1..n -> CrcVals] : n \in 0..MaxCrcLen}
      \cup {Drop(Take(mspV2Encode(0, 0), 8), 3)}

\* one turn of the loop "for _, v := range ... { crc = crc8DvbS2(crc, v) }":
\* hdr holds the bytes done, payload the bytes to come, ccrc the crc
E_CrcByte ==
    /\ payload # <<>>
    /\ ccrc' = crc8DvbS2(ccrc, Head(payload))
    /\ hdr' = Append(hdr, Head(payload))
    /\ payload' = Tail(payload)
    /\ UNCHANGED <<input, wire, rxbuf, whole, rpc, res>>
    /\ UNCHANGED <<svars, xvars>>

\* crc := byte(0) before the loop
CrcStart ==
    /\ input = In("none", 0, <<>>, <<>>)
    /\ wire = <<>> /\ rxbuf = <<>> /\ whole = TRUE
    /\ rpc = "done" /\ hdr = <<>> /\ payload \in CrcInputs /\ ccrc = 0
    /\ res = NoRes
    /\ SessionIdle /\ TickerIdle /\ SticksIdle /\ PayloadIdle /\ HandlerIdle

\* the checksum loop over byte sequences
SpecCrc == CrcStart /\ [][E_CrcByte]_vars

\* the goroutine of the RX simulation runs while the read loop dispatches
\* frames, meets errors of the port and reconnects; nobody toggles the
\* simulation
ResimNext ==
    \/ Tick \/ G_Recv \/ G_Update \/ G_Load \/ G_ToMSP \/ G_Write
    \/ L_Load \/ L_ReadBegin \/ L_ReadFrame \/ L_ReadError \/ L_ErrCheck
    \/ L_Dispatch \/ L_Reconnected
    \/ R_Check \/ R_Close \/ R_Nil \/ R_Poll \/ R_Open \/ R_Sleep
    \/ R_Reset \/ R_Assign \/ R_Info \/ R_Return

\* the session connected, the RX map of the board dispatched, the RX
\* simulation toggled on: its ticker runs, its goroutine waits for a tick
ResimStart ==
    /\ CodecIdle /\ SessionInit /\ callsLeft = 0 /\ sends = {mspRXMap}
    /\ rxTicker = 1 /\ nextT = 1 /\ ticks = 0 /\ rcLate = FALSE
    /\ tstate = [t \in Tickers |-> IF t = 1 THEN "running" ELSE "none"]
    /\ tchan = [t \in Tickers |-> 0]
    /\ gpc = [t \in Tickers |-> IF t = 1 THEN "recv" ELSE "none"]
    /\ gm = [t \in Tickers |-> 0]
    /\ sticks = resetSticks /\ boardMap = BoardRXMap
    /\ channelMap = rxMapOf(boardMap)
    /\ now = 0 /\ presses = 0
    /\ kop = NoCall
    /\ held = [a \in Axes |-> NoTime]
    /\ PayloadIdle /\ HandlerIdle

SpecResim == ResimStart /\ [][ResimNext]_vars

\* frames of every handled code arrive and are handled one after the other
SpecHandler == HandlerStart /\ [][H_Frame]_vars

\* the two tasks call Keypress, Update and ToMSP while the read loop meets
\* errors of the port and reconnects
LockNext ==
    \/ M_Lock \/ M_Switch \/ M_Stamp \/ M_Update \/ M_ToMSP \/ M_Unlock
    \/ L_Load \/ L_ReadBegin \/ L_ReadError \/ L_ErrCheck \/ L_Reconnected
    \/ R_Check \/ R_Close \/ R_Nil \/ R_Poll \/ R_Open \/ R_Sleep
    \/ R_Reset \/ R_Assign \/ R_Info \/ R_Return

\* the session connected, the RX map of the board dispatched, both tasks
\* outside any call
LockStart ==
    /\ CodecIdle /\ SessionIdle /\ TickerIdle /\ PayloadIdle /\ HandlerIdle
    /\ sticks = resetSticks /\ boardMap = BoardRXMap
    /\ channelMap = rxMapOf(boardMap)
    /\ now = 0 /\ presses = 0
    /\ kop = NoCall
    /\ held = [a \in Axes |-> NoTime]

SpecLock == LockStart /\ [][LockNext]_vars

Spec == SpecSession


-----------------------------------------------------------------------------
\* helpers of the properties

IsPrefix(s, t) == Len(s) <= Len(t) /\ s = Take(t, Len(s))
\* ReadFrame has returned for an input of this kind
Done(kind) == rpc = "done" /\ input.kind = kind
OpenHandles == {h \in Handles : hstate[h] = "open"}

\* what a flipped v1 frame has to be answered with: the checksum error with
\* the command, the payload as sent on the wire, the checksum byte of the
\* frame and the checksum recomputed over what was sent
FlipError ==
    LET n == Len(input.data)
        rcvd == SubSeq(input.bytes, 6, 5 + n)
    IN  ChecksumErr(input.cmd, rcvd, XorAll(0, <<n, input.cmd>> \o input.data),
                    XorAll(0, <<n, input.cmd>> \o rcvd))

\* C1: the bytes of mspV1Encode(c, p) fed to ReadFrame yield the frame with
\* code c and payload p
C1_V1RoundTrip == Done("v1") => res = FrameRes(input.cmd, input.data)

\* the round trip when every byte of the frame had arrived before the first
\* Read
V1RoundTripWhole ==
    (Done("v1") /\ whole) => res = FrameRes(input.cmd, input.data)

\* C2: an encoded v1 frame with a single payload bit inverted makes ReadFrame
\* return the checksum error that carries the command, the payload, the
\* received and the recomputed checksum; no frame is returned
C2_BitFlipIsChecksumError ==
    Done("v1flip") =>
        /\ res = FlipError
        /\ res.payload # input.data
        /\ res.expected # res.checksum

\* the flipped frame when every byte of it had arrived before the first Read
BitFlipWhole ==
    (Done("v1flip") /\ whole) => (res = FlipError /\ res.expected # res.checksum)

\* C3: a v2 frame whose checksum byte does not match the CRC-8/DVB-S2 of its
\* header and payload is rejected with a checksum error
C3_V2ChecksumValidated == (Done("v2bad") /\ whole) => res.kind = "checksum"

\* C4: when ReadFrame returned a checksum mismatch, an unknown frame marker or
\* an out-of-band byte, the read loop's next step is the next round of the
\* loop: the handle stays open and installed, reconnect is not entered and
\* the identity fields are left alone
C4_ProtocolErrorsKeepConnection ==
    [][(lpc = "errcheck" /\ lerr \in {"checksum", "unknown", "oob"}
        /\ lpc' # lpc)
       => (lpc' = "top" /\ fmsp' = fmsp /\ hstate' = hstate
           /\ ident' = ident)]_vars

\* C5: no error of the transport ends the program: the read loop never takes
\* the branch after a failed reconnect, reconnect only ever returns nil and
\* then with a primary handle its open has produced, every error that is not a protocol
\* error leads into reconnect (after the wait when it is the closed
\* condition), and a failed open is followed by the sleep and the next try
C5_IOErrorNeverFatal ==
    /\ [](lpc # "fatal")
    /\ [](lpc = "rc_ret" =>
            rret = "nil" /\ rm # 0 /\ hrole[rm] = "primary"
            /\ hstate[rm] # "none")
    /\ [][(lpc = "errcheck" /\ lerr # "nil" /\ ~IsMSPError(lerr)
           /\ lpc' # lpc)
          => lpc' = (IF IsErrClosed(lerr) THEN "wait" ELSE "rc_check")]_vars
    /\ [][(lpc \in {"wait", "spin", "spin_late"} /\ lpc' # lpc)
          => lpc' \in {"spin", "spin_late", "rc_check"}]_vars
    /\ [][(lpc = "rc_poll" /\ lpc' # lpc) => lpc' \in {"rc_open", "rc_sleep"}]_vars
    /\ [][(lpc = "rc_open" /\ lpc' # lpc) =>
            lpc' = (IF OpenSucceeds THEN "rc_reset" ELSE "rc_sleep")]_vars
    /\ [][(lpc = "rc_sleep" /\ lpc' # lpc) => lpc' = "rc_poll"]_vars

\* C5 witness: reconnect has returned after the port could not be opened for
\* a while and the loop is about to test its result
C5_Witness ==
    lpc = "rc_ret" /\ rret = "nil" /\ hstate[rm] = "open" /\ rm = MaxHandles

\* the read loop is on its way through the failure handling
InReconnect ==
    lpc \in {"wait", "spin", "spin_late", "rc_check", "rc_close", "rc_nil",
             "rc_poll", "rc_open", "rc_sleep"}
\* the read loop reads from the open handle of a connection made afterwards
Resumed == lpc = "reading" /\ lm = fmsp /\ lm = conn /\ hstate[lm] = "open"

\* C6: if from some point on the port is present and opening it succeeds,
\* every failure handling of the read loop leads to a connected session that
\* reads frames from a fresh handle
C6_ReconnectCompletes ==
    (<>[]OpenSucceeds) => [](InReconnect => <>Resumed)

\* the eight identification commands in the order of the specification
Handshake ==
    <<Cmd(mspAPIVersion), Cmd(mspFCVariant), Cmd(mspFCVersion),
      Cmd(mspBoardInfo), Cmd(mspBuildInfo), Cmd(mspFeature),
      Cmd(mspCFSerialConfig), Cmd(mspRXMap)>>
IsIdentCmd(w) == \E i \in 1..Len(Handshake) : Handshake[i] = w
IdentWrites(h) == SelectSeq(hwrites[h], IsIdentCmd)

\* C7: what a primary handle was sent is at any time a prefix of the eight
\* identification commands in their order, and all eight were sent before
\* the read loop reads from the handle, before reconnect returns and before
\* a frame read from the handle is dispatched
C7_HandshakeBeforeDispatch ==
    \A h \in Handles :
        /\ hrole[h] = "primary" => IsPrefix(hwrites[h], Handshake)
        /\ dispatched[h] => IdentWrites(h) = Handshake
        /\ (lpc \in {"read", "reading", "dispatch"} /\ lm = h)
              => IdentWrites(h) = Handshake
        /\ (lpc = "rc_ret" /\ rm = h) => hwrites[h] = Handshake

\* C7 witness: a frame read from a handle opened by reconnect was dispatched
C7_Witness ==
    \E h \in Handles : h # 1 /\ hrole[h] = "primary" /\ dispatched[h]

\* C8: an identity field is empty or was learned on the present connection,
\* and all of them are empty from reset until reconnect has returned
C8_IdentityOfOneBoard ==
    /\ \A f \in Fields : ident[f] \in {0, conn}
    /\ lpc \in {"rc_assign", "rc_info", "rc_ret"} => \A f \in Fields : ident[f] = 0

\* C8 witness: after a reconnect the variant is known again and the target
\* name is not
C8_Witness == conn > 1 /\ ident["variant"] = conn /\ ident["targetName"] = 0

\* C9: at most one handle of the port is open at any time; so the temporary
\* handle of prepareToReboot and a primary handle are never open together
C9_OneHandleOpen == Cardinality(OpenHandles) <= 1

\* the steps of prepareToReboot
RebootSteps == <<"detach", "close", "sleep", "open", "action", "close temp">>
RebootStepsNoOpen == <<"detach", "close", "sleep", "open failed">>
IsRebootWrite(w) == w \in {Cmd(mspReboot), Raw(RebootChar)}

\* C10: prepareToReboot detaches the primary handle, closes it, sleeps, opens
\* a temporary handle, runs the action on it and closes it, in this order;
\* the action's write is only ever on a temporary handle that was never the
\* primary one; when the open fails the action is not run and the open's
\* error is what is returned
C10_RebootSequence ==
    /\ (IsPrefix(plog, RebootSteps) \/ IsPrefix(plog, RebootStepsNoOpen))
    /\ \A h \in Handles :
          (\E i \in 1..Len(hwrites[h]) : IsRebootWrite(hwrites[h][i]))
             => (hrole[h] = "temp" /\ h # fmsp /\ h # conn
                 /\ Len(hwrites[h]) = 1)
    /\ ppc = "act" => (hstate[pmm] = "open" /\ hrole[pmm] = "temp" /\ pmm # pm)
    /\ pret = "open error" => plog = RebootStepsNoOpen
    /\ pret = "fn result" =>
          (plog = RebootSteps /\ \A h \in Handles : hrole[h] = "temp" =>
                                     hstate[h] = "closed")

\* C10 witness: a call has gone through all its steps and returned
C10_Witness ==
    /\ pret = "fn result" /\ ppc = "idle"
    /\ \E h \in Handles : hrole[h] = "temp" /\ hwrites[h] = <<ActionWrite(pact)>>


\* C11: the read loop never calls Read on a handle whose port Close has
\* cleared: a ReadFrame it starts or continues ends with a frame or an error,
\* never with the panic of the nil port
C11_ReadLoopSeesClosed ==
    [][(lpc \in {"read", "reading"} /\ lpc' # lpc) => lpc' # "crashed"]_vars


\* C12: once a ToggleRXSimulation that switched the simulation off has
\* returned, no MspSetRawRC is written any more: the ticker goroutine never
\* writes while FC.rxTicker is nil
C12_NoRCAfterDisable == rcLate = FALSE

\* the other direction key of a key's axis
Opposite(key) ==
    CASE key = "W" -> "S" [] key = "S" -> "W"
      [] key = "A" -> "D" [] key = "D" -> "A"
      [] key = "Up" -> "Down" [] key = "Down" -> "Up"
      [] key = "Left" -> "Right" [] key = "Right" -> "Left"

\* the end of its axis a direction key stands for
ExtremeOf(key) == IF key \in {"W", "D", "Up", "Right"} THEN RxHigh ELSE RxLow

\* the direction keys of an axis that have a pending timestamp
Pending(r, a) == {k \in DirKeys : AxisOf(k) = a /\ r.lastPress[k] # NoTime}

\* C13: Keypress of a direction key puts its axis at the key's extreme,
\* empties the timestamp of the opposite key of that axis and records the
\* time of the press as the key's own timestamp
C13_KeypressSetsExtreme ==
    (kop.op = "keypress" /\ kop.key \in DirKeys) =>
        /\ sticks[AxisOf(kop.key)] = ExtremeOf(kop.key)
        /\ sticks.lastPress[Opposite(kop.key)] = NoTime
        /\ sticks.lastPress[kop.key] = At(kop.at)

\* C14: decay never fires early: an Update re-centres an axis only when the
\* last direction key pressed on that axis was pressed more than keyTimeout
\* ago, so neither a repeated press nor a reversal is undone by an older
\* timestamp
C14_DecayNeverEarly ==
    [][\A a \in Axes :
         (kop'.op = "update" /\ sticks[a] # RxMid /\ sticks'[a] = RxMid)
           => (held[a] # NoTime /\ held[a][1] + keyTimeout < now)]_vars

\* C15: an axis that is at 1000 or 2000 has a direction key with a pending
\* timestamp, so that Update brings it back to 1500
C15_ExtremeHasPending ==
    \A a \in Axes : sticks[a] \in {RxLow, RxHigh} => Pending(sticks, a) # {}

\* C16: two consecutive presses of one toggle key leave its auxiliary
\* channel at the value it had before the first of them
C16_TogglePairRestores ==
    [][(presses' = presses + 1 /\ kop.op = "keypress"
          /\ kop.key \in ToggleKeys /\ kop'.key = kop.key)
         => sticks'.Channels[AuxOf(kop.key)] = kop.was]_vars

\* a step that is a call of ToMSP that returned
ToMSPReturned == kop'.op = "tomsp" /\ kop' # kop

\* what C17 says of the call of ToMSP that the step is
ToMSPLayout ==
    /\ sticks' = sticks
    /\ Len(kop'.out) = 18
    /\ kop'.out[kop'.map[1] + 1] = sticks.Roll
    /\ kop'.out[kop'.map[2] + 1] = sticks.Pitch
    /\ kop'.out[kop'.map[3] + 1] = sticks.Yaw
    /\ kop'.out[kop'.map[4] + 1] = sticks.Throttle
    /\ \A i \in AuxIdx : kop'.out[5 + i] = sticks.Channels[i]

\* the first four entries of a channel map name four different positions
FourPositions(cm) == Cardinality({cm[i] : i \in 1..4}) = 4

DecodesEnc ==
    /\ dec.err # "none" /\ dec.from = 0
    /\ dec.tgt = Zero(enc)
    /\ frame.Payload = encodeArgs(enc)

\* C18: a value encoded by encodeArgs and decoded by MSPFrame.Read comes back
\* as it was, for integers of 8, 16 and 32 bits, a struct and a slice of
\* structs, and the cursor has advanced by the number of encoded bytes
C18_RoundTrip ==
    DecodesEnc => /\ dec.err = "nil"
                  /\ dec.out = enc
                  /\ frame.payloadPos = Len(encodeArgs(enc))

\* C18: two serial configurations in a slice came back, 14 bytes read
C18_Witness ==
    /\ DecodesEnc /\ enc.k = "slice" /\ Len(enc.sub) = 2
    /\ enc.sub[2].k = "struct" /\ enc.sub[2].sub[2].v = 33024
    /\ dec.out = enc /\ frame.payloadPos = 14

\* the bytes a target needs
Need(x) == Len(encodeArgs(x))

\* C19: a Read that finds fewer bytes than its target needs returns io.EOF,
\* no Read returns another error or panics, and the cursor stays within the
\* payload
C19_ExhaustedIsEOF ==
    /\ 0 <= frame.payloadPos /\ frame.payloadPos <= Len(frame.Payload)
    /\ dec.err \in {"none", "nil", "EOF"}
    /\ (dec.err # "none" /\ Len(frame.Payload) - dec.from < Need(dec.tgt))
         => dec.err = "EOF"

\* C19: the payload ended in the middle of a struct, after some of its
\* fields were read
C19_Witness ==
    /\ dec.err = "EOF" /\ dec.tgt.k = "struct"
    /\ frame.payloadPos > dec.from
    /\ frame.payloadPos = Len(frame.Payload)

\* the payload declares a target name that fits
NameFits(pl) == Len(pl) >= 9 /\ 9 + pl[9] <= Len(pl)

\* C20: a board-info frame never ends in an error or a crash; four bytes set
\* the board id and give an empty target name, a declared name that fits is
\* the target name, and any other payload leaves the target name empty
C20_BoardInfo ==
    binfo.err # "none" =>
        /\ binfo.err = "nil"
        /\ Len(frame.Payload) = 4 =>
             (binfo.boardID = frame.Payload /\ binfo.targetName = <<>>)
        /\ NameFits(frame.Payload) =>
             binfo.targetName = SubSeq(frame.Payload, 10, 9 + frame.Payload[9])
        /\ ~NameFits(frame.Payload) => binfo.targetName = <<>>


\* C22: Reboot and dfuReboot never dereference a missing handle: a call of
\* prepareToReboot made while FC.msp is nil does not end in the panic of
\* m.Close() on a nil handle
C22_CallerNeverCrashes == ppc # "crashed"

OpenFindsPortPresent == lpc = "rc_open" => port # "absent"

\* C26: with the closed error the read loop goes into the wait and leaves it
\* for reconnect only when it sees the port absent or the timeout has
\* passed; with any other error that is not a protocol error it enters
\* reconnect at once
C26_ClosedWaitsForAbsence ==
    /\ [][(lpc = "errcheck" /\ lpc' # lpc /\ IsErrClosed(lerr))
          => lpc' = "wait"]_vars
    /\ [][(lpc = "wait" /\ lpc' # lpc) => lpc' = "spin"]_vars
    /\ [][(lpc' = "rc_check" /\ lpc # "rc_check")
          => \/ /\ lpc = "errcheck"
                /\ lerr # "nil" /\ ~IsMSPError(lerr) /\ ~IsErrClosed(lerr)
             \/ /\ lpc \in {"spin", "spin_late"}
                /\ port = "absent" \/ lpc = "spin_late"]_vars
    /\ [][(lpc = "errcheck" /\ lpc' # lpc /\ lerr = "io")
          => lpc' = "rc_check"]_vars

\* C26 witness: after the closed error the loop has waited out the timeout
\* with the port still there
C26_Witness == lpc = "spin_late" /\ port # "absent" /\ fmsp = 0


\* what readMSPV1Frame returns for the bytes r after "$M" when every Read
\* finds all the bytes it asks for, as far as the stream has them
readV1Whole(r) ==
    LET buf == Filled(3, Take(r, 3))
        payloadLength == buf[2]
        rest == Drop(r, 3)
        pl == Take(rest, payloadLength)
        after == Drop(rest, payloadLength)
    IN  IF r = <<>> THEN IOErr
        ELSE IF BadDirection(buf) THEN DirectionErr(buf[1])
        ELSE IF Len(rest) < payloadLength \/ after = <<>> THEN IOErr
        ELSE v1Result(buf[3], pl, after[1],
                      XorAll(Xor(Xor(0, buf[2]), buf[3]), pl))

\* the same for readMSPV2Frame and the bytes r after "$X"
readV2Whole(r) ==
    LET buf == Filled(6, Take(r, 6))
        payloadLength == buf[5] + 256 * buf[6]
        rest == Drop(r, 6)
        pl == Take(rest, payloadLength)
        after == Drop(rest, payloadLength)
    IN  IF r = <<>> THEN IOErr
        ELSE IF BadDirection(buf) THEN DirectionErr(buf[1])
        ELSE IF Len(rest) < payloadLength \/ after = <<>> THEN IOErr
        ELSE v2Result(buf[3] + 256 * buf[4], pl, after[1])

\* what ReadFrame returns for the stream b in that case
readFrameWhole(b) ==
    IF b = <<>> THEN IOErr
    ELSE IF b[1] # ChDollar THEN OOBErr(b[1])
    ELSE IF Len(b) < 2 THEN IOErr
    ELSE IF b[2] = ChM THEN readV1Whole(Drop(b, 2))
    ELSE IF b[2] = ChX THEN readV2Whole(Drop(b, 2))
    ELSE UnknownCharErr(b[2])

\* C28: whatever way the transport hands the bytes of a stream to the Read
\* calls, ReadFrame returns the frame or the error it returns when every
\* byte of the stream is there before the first Read
C28_SplitIndependent == rpc = "done" => res = readFrameWhole(input.bytes)

\* ReadFrame on a stream that is all there before the first Read
WholeStreamResult ==
    (rpc = "done" /\ whole) => res = readFrameWhole(input.bytes)

\* the streams on which no Read of a header comes back short: those shorter
\* than a header cannot be split inside one
SplitOutsideHeaders ==
    (rpc = "done" /\ input.kind \in {"oob", "unknown"})
        => res = readFrameWhole(input.bytes)


\* C23: the goroutine of the RX simulation writes MspSetRawRC only to a
\* handle that is open at the time of the write
C23_RCWriteToOpenHandle ==
    [][\A t \in Tickers :
         (gpc[t] = "write" /\ gpc'[t] # "write") => hstate[gm[t]] = "open"]_vars

\* C24: every channel map handed to ToMSP by the goroutine of the RX
\* simulation has at least four entries, the first four of them in 0..3
C24_MapFitsToMSP ==
    kop.op \in {"tomsp", "panic"} =>
        /\ Len(kop.map) >= 4
        /\ \A i \in 1..4 : kop.map[i] \in 0..3

\* the maps of eight entries a board has reported
ReportedMapFitsToMSP ==
    (kop.op \in {"tomsp", "panic"} /\ kop.map # <<>>) =>
        \A i \in 1..4 : kop.map[i] \in 0..3


\* the bytes of its payload the handler of a code reads
Needs(code) ==
    CASE code \in {mspAPIVersion, mspFCVersion} -> 3
      [] code \in {mspBoardInfo, mspFeature} -> 4
      [] code = mspBuildInfo -> 19
      [] code = mspRXMap -> 8
      [] OTHER -> 0

\* the last frame handled had a payload shorter than its handler reads: too
\* few bytes, or a serial configuration cut short
ShortFrame ==
    \/ Len(hcall.payload) < Needs(hcall.code)
    \/ hcall.code = mspCFSerialConfig /\ Len(hcall.payload) % 7 # 0

\* C21: a frame whose payload is shorter than its handler needs ends the
\* handling of that frame only: the read loop is back at the top of its
\* loop, not crashed, and the connection is the one it had
C21_ShortPayloadAbortsFrame ==
    ShortFrame => lpc = "top" /\ fmsp = 1 /\ hstate[fmsp] = "open"

\* a short frame that the handler ended without a panic
ShortFrameSurvived == ShortFrame /\ hcall.code = mspRXMap /\ lpc = "top"

\* (major, minor, patch) of f is at least (1, 9, 0), compared field by
\* field from the left
AtLeast190(f) ==
    \/ f.versionMajor > 1
    \/ f.versionMajor = 1 /\ f.versionMinor >= 9

\* forcing applies to f: the option is set, the variant is the four
\* characters I, N, A, V, the version is at least 1.9.0
Forcing(f) ==
    /\ f.EnableDebugTrace
    /\ Len(f.variant) = 4
    /\ f.variant[1] = 73 /\ f.variant[2] = 78
    /\ f.variant[3] = 65 /\ f.variant[4] = 86
    /\ AtLeast190(f)

\* the feature bits the handler works on: the first four bytes of the
\* payload, the lowest first, or the bits f had when the payload has fewer
FeaturesRead ==
    IF Len(hcall.payload) >= 4
    THEN [hcall.was.Features EXCEPT
            !.v = hcall.payload[1] + 256 * hcall.payload[2],
            !.h = hcall.payload[3] + 256 * hcall.payload[4]]
    ELSE hcall.was.Features

\* the four bytes of a uint32, the lowest first
Bytes32(x) == <<x.v % 256, x.v \div 256, x.h % 256, x.h \div 256>>

\* C29: on a feature-flags frame, if bit 31 is clear and forcing applies,
\* the handler sets that bit and no other, and writes set-feature with the
\* new value and then the EEPROM write; otherwise it writes nothing and
\* keeps the bits it read; no other field of the FC changes
C29_FeatureForcing ==
    hcall.code = mspFeature =>
      /\ lpc = "top"
      /\ [fc EXCEPT !.Features = hcall.was.Features] = hcall.was
      /\ IF FeaturesRead.h < 32768 /\ Forcing(hcall.was)
         THEN /\ fc.Features = [FeaturesRead EXCEPT !.h = @ + 32768]
              /\ hcall.wrote =
                   <<[cmd |-> mspSetFeature, data |-> Bytes32(fc.Features)],
                     [cmd |-> mspEepromWrite, data |-> <<>>]>>
         ELSE /\ fc.Features = FeaturesRead
              /\ hcall.wrote = <<>>

\* a feature-flags frame with other bits set was answered by the two
\* writes, on a board of version 2.0.0
C29_Witness ==
    /\ hcall.code = mspFeature /\ Len(hcall.payload) = 4
    /\ hcall.payload[1] # 0
    /\ Len(hcall.wrote) = 2
    /\ hcall.was.versionMajor = 2 /\ hcall.was.versionMinor = 0

\* the whole serial configurations in the payload of the last frame
Records == 1..(Len(hcall.payload) \div 7)
\* the low and the high byte of the function mask of record i
MaskLow(i) == hcall.payload[7 * (i - 1) + 2]
MaskHigh(i) == hcall.payload[7 * (i - 1) + 3]
\* record i carries the MSP bit (bit 0), the debug-trace bit (bit 15)
CarriesMSP(i) == MaskLow(i) % 2 = 1
CarriesTrace(i) == MaskHigh(i) >= 128

\* the bytes of the whole records, the debug-trace bit added to the first
\* record that carries the MSP bit
RecordsWithTrace ==
    [j \in 1..(7 * (Len(hcall.payload) \div 7)) |->
       IF \E i \in Records :
            /\ j = 7 * (i - 1) + 3
            /\ CarriesMSP(i)
            /\ \A k \in Records : CarriesMSP(k) => i <= k
       THEN hcall.payload[j] + 128
       ELSE hcall.payload[j]]

\* C30: on a serial-config frame with forcing, if no record carries both
\* bits the list is written back with set-serial-config, the debug-trace
\* bit added to the first record carrying the MSP bit and nothing else
\* changed, followed by the EEPROM write; if some record carries both
\* bits, or without forcing, nothing is written; the FC does not change
C30_SerialConfigForcing ==
    hcall.code = mspCFSerialConfig =>
      /\ lpc = "top"
      /\ fc = hcall.was
      /\ IF Forcing(hcall.was)
            /\ ~\E i \in Records : CarriesMSP(i) /\ CarriesTrace(i)
         THEN hcall.wrote =
                <<[cmd |-> mspSetCFSerialConfig, data |-> RecordsWithTrace],
                  [cmd |-> mspEepromWrite, data |-> <<>>]>>
         ELSE hcall.wrote = <<>>

\* two records were written back, the second of them the first MSP port
C30_Witness ==
    /\ hcall.code = mspCFSerialConfig
    /\ Len(hcall.wrote) = 2
    /\ Len(hcall.wrote[1].data) = 14
    /\ ~CarriesMSP(1) /\ CarriesMSP(2)
    /\ hcall.wrote[1].data[10] = hcall.payload[10] + 128

\* some record carried both bits and nothing was written, with forcing
SerialConfigAlreadyTraced ==
    /\ hcall.code = mspCFSerialConfig /\ Forcing(hcall.was)
    /\ \E i \in Records : CarriesMSP(i) /\ CarriesTrace(i)
    /\ hcall.wrote = <<>>


\* the tasks between Lock and Unlock of RxSticks.mu
Inside == {t \in Tasks : crit[t].pc \in {"in", "stamp", "unlock"}}

\* the stick state: RxSticks without its mutex
StickState(r) == [r EXCEPT !.mu = "unlocked"]

\* C27: Keypress, Update and ToMSP exclude each other on the stick state:
\* at most one task is between Lock and Unlock, and while a task is there
\* no step but its own changes the stick state
C27_SticksExclusive ==
    /\ [](Cardinality(Inside) <= 1)
    /\ [][\A t \in Tasks :
            t \in Inside /\ crit'[t] = crit[t]
              => StickState(sticks') = StickState(sticks)]_vars

\* two tasks are never between Lock and Unlock at once
OneTaskInside == Cardinality(Inside) <= 1

\* no Unlock finds the mutex unlocked
NoUnlockOfUnlocked == \A t \in Tasks : crit[t].pc # "fatal" \/ kop.op = "panic"

\* a call of one task ran from Lock to Unlock while the other waited
LockedCallCompleted ==
    \E t \in Tasks : crit[t].pc = "unlock" /\ sticks.mu = t


\* C31: the serial-config handler writes only when it changed a record: if
\* no whole record of the payload carries the MSP bit, it writes nothing
C31_SerialConfigWritesOnlyChanges ==
    hcall.code = mspCFSerialConfig /\ (\A i \in Records : ~CarriesMSP(i))
      => hcall.wrote = <<>>

\* the last frame handled met the end of its payload in MSPFrame.Read
Exhausted ==
    \/ hcall.code = mspFeature /\ Len(hcall.payload) < 4
    \/ hcall.code = mspRXMap /\ Len(hcall.payload) < 8

\* C32: a handler that meets the end of the payload has no effect: the
\* fields of the FC and the channel map are as before, nothing is written
C32_ExhaustedHasNoEffect ==
    Exhausted =>
      /\ fc = hcall.was
      /\ channelMap = hcall.wasMap
      /\ hcall.wrote = <<>>

\* a short feature frame sends nothing
ShortFeatureWritesNothing ==
    hcall.code = mspFeature /\ Len(hcall.payload) < 4 => hcall.wrote = <<>>

\* a short channel-map frame keeps the stored map
ShortMapKeepsMap ==
    hcall.code = mspRXMap /\ Len(hcall.payload) < 8
      => channelMap = hcall.wasMap

\* C34: the summary line is printed exactly when an FC-variant, FC-version
\* or board-info frame was handled to its end and after it the variant is
\* not empty, the major version not zero and the board id not empty
C34_SummaryLine ==
    hcall.code # 0 =>
      (hcall.printed <=>
         /\ hcall.code \in {mspFCVariant, mspFCVersion, mspBoardInfo}
         /\ lpc = "top"
         /\ Len(fc.variant) > 0
         /\ fc.versionMajor > 0
         /\ Len(fc.boardID) > 0)

\* the line is printed again by a frame that changes nothing: the handled
\* frame left the fields as they were, complete, and printed
C34_Witness ==
    /\ hcall.printed /\ hcall.code = mspFCVariant
    /\ printInfo(hcall.was) /\ fc = hcall.was

\* a frame of the three was handled with the fields complete but for the
\* version, and nothing was printed
SummaryHeldBack ==
    /\ hcall.code = mspBoardInfo /\ lpc = "top" /\ ~hcall.printed
    /\ Len(fc.variant) > 0 /\ Len(fc.boardID) > 0


\* the keys of the PidSet and the bytes of the payload each is made of,
\* counted from 0: the first and the one after the last
PidTable ==
    {<<"roll", 0, 3>>, <<"pitch", 3, 6>>, <<"yaw", 6, 8>>, <<"alt", 8, 11>>,
     <<"vel", 11, 14>>, <<"mag", 14, 15>>, <<"pos", 15, 16>>,
     <<"posR", 16, 19>>, <<"navR", 19, 22>>}

\* the PidSet the payload of the last PID frame stands for
DecodedPidSet ==
    {[key |-> e[1],
      pid |-> [FlightSurface |-> e[1],
               Value |-> [i \in 1..(e[3] - e[2]) |-> pid.payload[e[2] + i]]]] :
       e \in PidTable}

\* C33: after a PID frame of at least 30 bytes the PidSet is the nine
\* entries made of the payload's sub-ranges and nothing else, and a
\* registered consumer received exactly it; after a shorter one the PidSet
\* is the previous one and the consumer was not called
C33_PidSetReplaced ==
    pid.err # "none" =>
      IF Len(pid.payload) >= 30
      THEN /\ pid.PidMap = DecodedPidSet
           /\ pid.received = IF pid.registered THEN <<DecodedPidSet>>
                             ELSE <<>>
      ELSE /\ pid.PidMap = pid.was
           /\ pid.received = <<>>

\* the keys and the values of the PidSet are those of the payload
PidSetValues ==
    pid.err # "none" /\ Len(pid.payload) >= 30 =>
      {[key |-> e.key, Value |-> e.pid.Value] : e \in pid.PidMap}
        = {[key |-> e.key, Value |-> e.pid.Value] : e \in DecodedPidSet}

\* a short PID frame leaves the PidSet and does not call the consumer
ShortPidFrameIgnored ==
    pid.err # "none" /\ Len(pid.payload) < 30 =>
      pid.PidMap = pid.was /\ pid.received = <<>>

\* a PID frame replaced a PidSet by another
PidSetReplacedOnce ==
    /\ pid.err = "nil" /\ pid.was # {} /\ pid.was # pid.PidMap
    /\ Len(pid.received) = 1


\* the toggle keys in the order of the auxiliary channels they switch
ToggleOrder == <<"1", "2", "3", "4", "5", "6", "7", "8", "9", "0">>

\* the auxiliary index 0..9 of a toggle key
ToggleIndex(key) ==
    (CHOOSE i \in 1..Len(ToggleOrder) : ToggleOrder[i] = key) - 1

\* the step is a Keypress of a toggle key
ToggleStep == presses' = presses + 1 /\ kop'.key \in ToggleKeys

\* some direction key of the axis has a timestamp older than keyTimeout
DirectionKeyExpired(a) ==
    \E k \in DirKeys :
      /\ AxisOf(k) = a
      /\ sticks.lastPress[k] # NoTime
      /\ sticks.lastPress[k][1] + keyTimeout < now

\* C35: a toggle-key press takes its own auxiliary channel from 1000 to
\* 2000 and from 2000 to 1000, leaves it at one of the two in any case,
\* and leaves the axes and the other auxiliary channels as they are; Update
\* changes no auxiliary channel, and changes an axis only if a direction
\* key of that axis has expired
C35_ToggleKeys ==
    [][/\ ToggleStep =>
            LET i == ToggleIndex(kop'.key)
            IN  /\ sticks'.Channels[i] \in {1000, 2000}
                /\ sticks.Channels[i] = 1000 => sticks'.Channels[i] = 2000
                /\ sticks.Channels[i] = 2000 => sticks'.Channels[i] = 1000
                /\ \A j \in AuxIdx \ {i} :
                     sticks'.Channels[j] = sticks.Channels[j]
                /\ \A a \in Axes : sticks'[a] = sticks[a]
       /\ kop'.op = "update" =>
            /\ sticks'.Channels = sticks.Channels
            /\ \A a \in Axes :
                 sticks'[a] # sticks[a] => DirectionKeyExpired(a)]_vars

\* key 2 was pressed twice: its channel, the second, is high, the others
\* are not
C35_Witness ==
    /\ kop.op = "keypress" /\ kop.key = "2" /\ presses = 2
    /\ sticks.Channels[1] = 2000
    /\ \A j \in AuxIdx \ {1} : sticks.Channels[j] # 2000

\* Update met the expired timestamp of a toggle key and cleared it
ToggleStampExpired ==
    /\ kop.op = "update"
    /\ sticks.Channels[0] = 1000
    /\ sticks.lastPress["1"] = NoTime
    /\ now > keyTimeout


\* the positions of the auxiliary channels in the payload of MspSetRawRC
AuxPositions == 5..(4 + AuxCount)

\* C36: every auxiliary channel value in a payload that a goroutine of the
\* RX simulation is about to write with MspSetRawRC is 1000 or 2000
C36_AuxChannelsLowOrHigh ==
    (kop.op = "tomsp" /\ \E t \in Tickers : gpc[t] = "write")
      => \A i \in AuxPositions : kop.out[i] \in {1000, 2000}

\* C38: each of roll, pitch, yaw and throttle is 1000, 1500 or 2000
C38_AxesInRange ==
    \A a \in Axes : sticks[a] \in {1000, 1500, 2000}

\* after two key presses one axis is at 1000 and another at 2000
C38_Witness ==
    /\ presses = 2 /\ kop.op = "keypress"
    /\ sticks.Throttle = 1000 /\ sticks.Roll = 2000
    /\ sticks.Pitch = 1500 /\ sticks.Yaw = 1500


\* MspSetRawRC is among the writes to handle h
RCWritten(h) == \E i \in 1..Len(hwrites[h]) : hwrites[h][i] = Cmd(mspSetRawRC)

\* C37: every reconnect switches the RX simulation off and centres the
\* sticks: when reconnect returns, rxTicker is nil and the four axes are at
\* 1500, and as long as nobody toggles the simulation on again no
\* MspSetRawRC is written to a handle that reconnect opened
C37_ReconnectSwitchesOff ==
    /\ lpc = "rc_ret" =>
         /\ rxTicker = 0
         /\ \A a \in Axes : sticks[a] = 1500
    /\ \A h \in Handles : hrole[h] = "primary" /\ h # 1 => ~RCWritten(h)

\* when reconnect returns the simulation is off and the sticks are centred
ReconnectLeavesOff ==
    lpc = "rc_ret" => rxTicker = 0 /\ \A a \in Axes : sticks[a] = 1500

\* reconnect has returned with a new connection
ReconnectReturned == lpc = "rc_ret" /\ fmsp = 2 /\ hstate[2] = "open"


\* C39: the bytes mspV1Encode returns are '$', 'M', '<', a length byte, the
\* command byte, the payload bytes and one checksum byte; the checksum is
\* the XOR of the length byte, the command byte and the payload bytes, and
\* the length byte is the number of payload bytes that follow it
C39_V1EncodeLayout ==
    input.kind = "v1" =>
        LET b == input.bytes
            n == Len(input.data)
        IN  /\ Len(b) = n + 6
            /\ b[1] = ChDollar /\ b[2] = ChM /\ b[3] = ChLt
            /\ b[4] = n
            /\ b[5] = input.cmd
            /\ SubSeq(b, 6, n + 5) = input.data
            /\ b[n + 6] = XorAll(0, <<b[4], b[5]>> \o input.data)

\* the layout of C39 for the payloads one length byte can count
V1EncodeLayoutUpTo255 == Len(input.data) <= 255 => C39_V1EncodeLayout

\* a payload of 259 bytes follows a length byte of 3
LengthByteWrapped ==
    /\ input.kind = "v1" /\ Len(input.data) = 259
    /\ input.bytes[4] = 3 /\ Len(input.bytes) = 265

\* a payload of 256 bytes is left out of the frame
PayloadLeftOut ==
    /\ input.kind = "v1" /\ Len(input.data) = 256
    /\ Len(input.bytes) = 6 /\ input.bytes[4] = 0

\* the exponents of the generator x^8 + x^7 + x^6 + x^4 + x^2 + 1 (0x1D5)
DvbS2Poly == {8, 7, 6, 4, 2, 0}

\* bit k of the byte b is set
BitSet(b, k) == (b \div (2 ^ k)) % 2 = 1

\* the message s as a polynomial over GF(2), times x^8: the set of the
\* exponents whose coefficient is 1, the first byte being the highest
MessagePoly(s) ==
    {8 * (Len(s) - q[1]) + q[2] + 8 :
        q \in {r \in (1..Len(s)) \X (0..7) : BitSet(s[r[1]], r[2])}}

\* the highest exponent of a polynomial that is not zero
Degree(P) == CHOOSE d \in P : \A e \in P : e <= d

RECURSIVE PolyMod(_)
\* the remainder of P divided by the generator: long division over GF(2)
PolyMod(P) ==
    IF P = {} \/ Degree(P) < 8 THEN P
    ELSE LET G == {Degree(P) - 8 + e : e \in DvbS2Poly}
         IN  PolyMod((P \ G) \cup (G \ P))

\* the byte whose set bits are the exponents of P
PolyByte(P) ==
    LET v(k) == IF k \in P THEN 2 ^ k ELSE 0
    IN  v(0) + v(1) + v(2) + v(3) + v(4) + v(5) + v(6) + v(7)

\* CRC-8/DVB-S2 of s by its definition: init 0, no reflection, no final xor
ReferenceCrc(s) == PolyByte(PolyMod(MessagePoly(s)))

\* the five bytes mspV2Encode puts between "$X<" and the payload when flags,
\* command and length are 0
EmptyV2Header == <<0, 0, 0, 0, 0>>

\* C40: crc8DvbS2 folded over a byte sequence gives CRC-8/DVB-S2 (polynomial
\* 0xD5, MSB first, init 0) of the sequence; the CRC of an empty v2 header
\* is 0; continuing the fold from the CRC of a first part over the rest
\* gives the CRC of one pass over the whole sequence
C40_CrcDvbS2 ==
    /\ ccrc = ReferenceCrc(hdr)
    /\ ccrc = crcAll(0, hdr)
    /\ crcAll(ccrc, payload) = crcAll(0, hdr \o payload)
    /\ crcAll(ccrc, payload) = ReferenceCrc(hdr \o payload)
    /\ hdr = EmptyV2Header => ccrc = 0
    /\ crcAll(0, EmptyV2Header) = 0

\* the loop stands inside a sequence, a first part done with a CRC that is
\* not 0 and a rest to come that changes it
C40_Witness ==
    /\ Len(hdr) >= 1 /\ Len(payload) >= 1
    /\ ccrc # 0
    /\ crcAll(ccrc, payload) # ccrc
    /\ ccrc = ReferenceCrc(hdr)

\* the loop has run over the empty v2 header
EmptyHeaderDone == hdr = EmptyV2Header /\ payload = <<>> /\ ccrc = 0

=============================================================================
